---- MODULE Spec2Model ----
(***************************************************************************)
(* A model of the market snapshot cache (cache.py, class MarketCache) and  *)
(* of the per-user watchlist loop (server.py, class                        *)
(* BuffAutoNotificationServer).                                            *)
(*                                                                         *)
(* Time is counted in clock ticks; TicksPerSecond ticks make one second.   *)
(* datetime.now() is the wall clock: two reads may return the same value   *)
(* (clock resolution), and the model never lets it run backwards.          *)
(***************************************************************************)
EXTENDS Integers, Sequences, FiniteSets, TLC

VARIABLES
    files,      \* json_dir: file name -> content of <name>.json
    now,        \* the wall clock, in ticks
    batch,      \* upsert_cache: the items of the running call still to process
    done,       \* upsert_cache: per processed item of the running call, what happened
    upc,        \* upsert_cache: "idle", "running" or "raised"
    nup,        \* number of items handed to upsert_cache so far
    last,       \* file name -> the latest item upsert_cache has written there
    result,     \* the list load_cache returned last
    query,      \* the arguments of that load_cache call
    pcw,        \* concurrent upsert_cache calls: thread -> place in the loop body
    witem,      \* thread -> the item it is processing
    wts,        \* thread -> its now_iso, as a time
    wbuf,       \* thread -> the content it is about to write
    cfg,        \* the user's data and the server settings the worker reads
    lpc,        \* _check_user_watchlist: the worker's place in the loop
    idx,        \* the position in the watchlist of the entry being processed
    cached_items,   \* the local cached_items
    keys_left,  \* the search keys of the running for loop not tried yet
    api_response,   \* the local api_response
    calls,      \* the marketplace calls made for the current entry, in order
    n_evaluated,    \* the calls of _evaluate_condition made for the current entry
    emails,     \* the messages handed to _send_email in the current pass
    user_files, \* user name -> the content of its user_data.yaml
    config,     \* server_config.yaml and the SMTP login of the server
    reply,      \* what the last call on the user records returned
    reqs,       \* /api/start_query: request -> its place in the handler
    query_servers,  \* web_server.query_servers: user name -> status
    servers,    \* the BuffAutoNotificationServer instances constructed
    workers,    \* the threads running _check_user_watchlist
    mail,       \* the calls of _send_email, each with what became of the message
    icon_download_delay_seconds,    \* the attribute of that name of the cache manager
    images      \* image_dir: the file names (without extension) that have an icon

storeVars == <<files, now, batch, done, upc, nup, last, result, query>>
raceVars == <<pcw, witem, wts, wbuf>>
loopVars ==
    <<cfg, lpc, idx, cached_items, keys_left, api_response, calls, n_evaluated, emails>>
srvVars == <<user_files, config, reply, reqs, query_servers, servers, workers, mail>>
iconVars == <<icon_download_delay_seconds, images>>
vars == <<storeVars, raceVars, loopVars, srvVars, iconVars>>

----------------------------------------------------------------------------
(* Bounds of the model *)

MaxTime == 3
TicksPerSecond == 2
MaxUpserts == 3

----------------------------------------------------------------------------
(* Values *)

None == [t |-> "none"]

Restrict(f, S) == [k \in S |-> f[k]]

\* dict.get(key): the value, or None
Get(d, k) == IF k \in DOMAIN d THEN d[k] ELSE None

Last(s) == s[Len(s)]

\* the value of a numeric field of a good, as JSON carries it: a number (or a
\* string that float() parses to it), null, or a string float() cannot parse
Num(n) == [t |-> "num", n |-> n]
Null == [t |-> "null", n |-> 0]
Text == [t |-> "text", n |-> 0]

----------------------------------------------------------------------------
(* cache.py: MarketCache.__init__ *)

static_keys ==
    {"id", "appid", "game", "name", "market_hash_name", "steam_market_url",
     "goods_info", "short_name", "can_search_by_tournament", "description"}

dynamic_keys ==
    {"sell_reference_price", "sell_min_price", "buy_max_price", "sell_num",
     "buy_num", "transacted_num", "quick_price", "market_min_price",
     "can_bargain", "rent_unit_reference_price", "rent_num",
     "min_rent_unit_price", "min_security_price", "is_charm",
     "keychain_color_img", "auction_num", "pre_sell_num",
     "pre_sell_min_price", "bookmarked", "has_buff_price_history"}

----------------------------------------------------------------------------
(* The goods the marketplace returns (RawGood).  steam_price is a field of *)
(* the response that is in neither key set.                                *)

Good(id, mhn, short, name, price, num) ==
    ("id" :> id) @@ ("market_hash_name" :> mhn) @@ ("short_name" :> short)
    @@ ("name" :> name) @@ ("game" :> "csgo")
    @@ ("sell_min_price" :> Num(price)) @@ ("sell_num" :> Num(num))
    @@ ("steam_price" :> Num(price))

Without(item, ks) == Restrict(item, DOMAIN item \ ks)

G42hi == Good(42, "A", "B", "C", 100, 5)
G42lo == Good(42, "A", "B", "C", 80, 6)
G42re == Good(42, "A", "B", "C2", 80, 6)
G7 == Good(7, "E", "F", "G", 100, 1)
GD == Without(Good(0, "D", "B", "C", 80, 2), {"id"})
GX == Without(Good(0, "D", "B", "C", 80, 2), {"id", "market_hash_name"})

RawGoods == {G42hi, G42lo, G42re, G7, GD, GX}

\* str(int) on the ids of the model
Str(n) == CASE n = 0 -> "0" [] n = 7 -> "7" [] n = 42 -> "42"

\* hashlib.md5(name).hexdigest(): a file name that is no id and no name
Md5(s) == CASE s = "A" -> "md5-A" [] s = "D" -> "md5-D" [] s = "E" -> "md5-E"

FileNames == {"7", "42", "md5-D"}

----------------------------------------------------------------------------
(* datetime.isoformat() / datetime.fromisoformat() and the order of str.   *)
(* isoformat() leaves the fraction out when it is zero; every other part   *)
(* has a fixed width, so a timestamp string is modelled as <<seconds>> or  *)
(* <<seconds, fraction>> and str's order as the order of such strings.     *)

isoformat(t) ==
    IF t % TicksPerSecond = 0
    THEN <<t \div TicksPerSecond>>
    ELSE <<t \div TicksPerSecond, t % TicksPerSecond>>

fromisoformat(s) ==
    IF Len(s) = 1 THEN s[1] * TicksPerSecond ELSE s[1] * TicksPerSecond + s[2]

\* a < b for two timestamp strings (a proper prefix sorts first)
StrLess(a, b) ==
    \/ a[1] < b[1]
    \/ /\ a[1] = b[1]
       /\ \/ Len(a) < Len(b)
          \/ Len(a) = 2 /\ Len(b) = 2 /\ a[2] < b[2]

----------------------------------------------------------------------------
(* The content of one <name>.json *)

Absent == [kind |-> "absent"]
\* a file that json.load cannot parse
Garbage == [kind |-> "garbage"]
\* a file that parses but lacks the {static, snapshots} shape: the item as
\* it came from the marketplace, not split into the two parts
Flat(item) == [kind |-> "legacy", flat |-> item]
Legacy == Flat(G42re)
Unified(st, sn) == [kind |-> "unified", static |-> st, snapshots |-> sn]

\* the isinstance test of upsert_cache and load_cache
IsUnified(c) == c.kind = "unified"

----------------------------------------------------------------------------
(* cache.py: MarketCache._get_filename *)

IdentityError == "ValueError"

get_filename(item) ==
    IF "id" \in DOMAIN item /\ item["id"] # 0
    THEN Str(item["id"])
    ELSE IF "market_hash_name" \in DOMAIN item /\ item["market_hash_name"] # ""
         THEN Md5(item["market_hash_name"])
         ELSE IdentityError

----------------------------------------------------------------------------
(* cache.py: MarketCache._download_icon.  What a call does is "skipped"    *)
(* (it returns None or False: nothing was fetched), "downloaded" (it       *)
(* returns True) or "raised" (an exception leaves it).                     *)

\* goods_info of an item as JSON carries it: null, or a dict whose icon_url
\* is "" when the dict has none
NullInfo == [t |-> "null", icon_url |-> ""]
GoodsInfo(icon_url) == [t |-> "dict", icon_url |-> icon_url]

\* what requests.get and the write of the image file do
FetchOutcomes == {"ok", "request_failed", "write_failed"}

\* present: os.path.exists(filepath)
download_icon(item, present, fetch) ==
    IF "goods_info" \in DOMAIN item /\ item["goods_info"].t = "null"
    THEN "raised"       \* line 72: None.get, an AttributeError
    ELSE IF "goods_info" \notin DOMAIN item \/ item["goods_info"].icon_url = ""
    THEN "skipped"      \* lines 73-75
    ELSE IF present
    THEN "skipped"      \* lines 83-84
    ELSE IF fetch = "request_failed"
    THEN "skipped"      \* lines 96-98
    ELSE IF fetch = "write_failed"
    THEN "raised"       \* lines 90-92: an OSError is no RequestException
    ELSE "downloaded"

----------------------------------------------------------------------------
(* cache.py: MarketCache.upsert_cache, the spacing of the icon downloads   *)
(* (lines 108-126).  d is the list of the items of the call processed so   *)
(* far.                                                                    *)

\* last_icon_download_time: the clock value taken at line 121 or 126 for the
\* latest item whose icon was downloaded, or None
last_icon_download_time(d) ==
    LET dl == {i \in 1..Len(d) : d[i].icon = "downloaded" /\ d[i].why # "identity"}
    IN  IF dl = {} THEN None
        ELSE [t |-> "time", at |-> d[CHOOSE i \in dl : \A o \in dl : o <= i].ts]

\* lines 117-126: the clock value at which the loop body goes on after
\* _download_icon returned at clock value t; icon_delay is in ticks
after_delay(t, did_download, icon_delay, last_time) ==
    IF did_download /\ icon_delay > 0 /\ last_time # None
       /\ t - last_time.at < icon_delay
    THEN last_time.at + icon_delay
    ELSE t

\* every field of the item that is not dynamic taken as static
static_part_all_other(item) == Restrict(item, DOMAIN item \ dynamic_keys)

static_part(item) == Restrict(item, static_keys \cap DOMAIN item)
dynamic_snapshot(item) == Restrict(item, dynamic_keys \cap DOMAIN item)

\* d[k] = v on a dict
Put(d, k, v) == [x \in DOMAIN d \cup {k} |-> IF x = k THEN v ELSE d[x]]

Empty == [x \in {} |-> None]

----------------------------------------------------------------------------
(* cache.py: MarketCache.upsert_cache, the body of the loop for one item.  *)
(* icon is what _download_icon did: "skipped", "downloaded" or "raised".   *)
(* The result is the store after the item and whether the item was         *)
(* written.                                                                *)

\* lines 150-156: the content of a new file
created(item, now_iso) ==
    Unified(static_part(item), Put(Empty, now_iso, dynamic_snapshot(item)))

\* lines 137-142 with a merge: static fields of the old content are kept
\* when the record is rebuilt
appended_keeping_old(existing, item, now_iso) ==
    LET e == IF IsUnified(existing)
             THEN existing
             ELSE Unified(static_part(existing.flat) @@ static_part(item), Empty)
    IN  Unified(e.static, Put(e.snapshots, now_iso, dynamic_snapshot(item)))

\* lines 137-142: the loaded content, rebuilt from the item alone when it
\* lacks the unified shape, with the new snapshot put under now_iso
appended(existing, item, now_iso) ==
    LET e == IF IsUnified(existing)
             THEN existing
             ELSE Unified(static_part(item), Empty)
    IN  Unified(e.static, Put(e.snapshots, now_iso, dynamic_snapshot(item)))

\* the loop body writing the static fields of the item over the stored ones
upsert_item_last_write_wins(fs, item, ts, icon) ==
    LET fn == get_filename(item)
        now_iso == isoformat(ts)
    IN  IF fn = IdentityError
        THEN [files |-> fs, ok |-> FALSE, why |-> "identity"]
        ELSE IF icon = "raised"
        THEN [files |-> fs, ok |-> FALSE, why |-> "icon"]
        ELSE IF fs[fn].kind = "absent"
        THEN [files |-> [fs EXCEPT ![fn] = created(item, now_iso)],
              ok |-> TRUE, why |-> "created"]
        ELSE IF fs[fn].kind = "garbage"
        THEN [files |-> fs, ok |-> FALSE, why |-> "unreadable"]
        ELSE LET a == appended(fs[fn], item, now_iso)
             IN  [files |-> [fs EXCEPT ![fn] =
                                Unified(static_part(item) @@ a.static, a.snapshots)],
                  ok |-> TRUE, why |-> "appended"]

upsert_item(fs, item, ts, icon) ==
    LET fn == get_filename(item)
        now_iso == isoformat(ts)
    IN  IF fn = IdentityError
        THEN [files |-> fs, ok |-> FALSE, why |-> "identity"]
        ELSE IF icon = "raised"
        THEN [files |-> fs, ok |-> FALSE, why |-> "icon"]
        ELSE IF fs[fn].kind = "absent"
        THEN [files |-> [fs EXCEPT ![fn] = created(item, now_iso)],
              ok |-> TRUE, why |-> "created"]
        ELSE IF fs[fn].kind = "garbage"
        THEN [files |-> fs, ok |-> FALSE, why |-> "unreadable"]
        ELSE [files |-> [fs EXCEPT ![fn] = appended(fs[fn], item, now_iso)],
              ok |-> TRUE, why |-> "appended"]

----------------------------------------------------------------------------
(* cache.py: MarketCache.load_cache *)

\* a key of the keys argument: an int or a str
IntKey(n) == [t |-> "int", n |-> n]
StrKey(s) == [t |-> "str", s |-> s]

\* the strings of the model that int() parses, and what it makes of them
NumericStrings == {"0", "7", "07", "42"}
int_of(s) == CASE s = "0" -> 0 [] s = "7" -> 7 [] s = "07" -> 7 [] s = "42" -> 42

\* lines 187-194: str(int(key)) for an int and for a str that int() parses,
\* and the key itself for any other str
filename_to_load(key) ==
    IF key.t = "int" THEN Str(key.n)
    ELSE IF key.s \in NumericStrings THEN Str(int_of(key.s))
    ELSE key.s

filenames_to_load(keys) == {filename_to_load(keys[i]) : i \in 1..Len(keys)}

\* the window without its end: a snapshot at end_time itself is left out
InWindow_open_end(ts, start_time, end_time) ==
    LET dt == fromisoformat(ts)
    IN  ~ \/ start_time # None /\ dt < fromisoformat(start_time.s)
          \/ end_time # None /\ dt >= fromisoformat(end_time.s)

InWindow(ts, start_time, end_time) ==
    LET dt == fromisoformat(ts)
    IN  ~ \/ start_time # None /\ dt < fromisoformat(start_time.s)
          \/ end_time # None /\ dt > fromisoformat(end_time.s)

\* sorted(snapshots.keys()) without reversed: the oldest one inside the window
selected_oldest(snapshots, start_time, end_time) ==
    LET inw == {ts \in DOMAIN snapshots : InWindow(ts, start_time, end_time)}
    IN  IF inw = {} THEN None
        ELSE [t |-> "ts",
              ts |-> CHOOSE ts \in inw : \A o \in inw : o = ts \/ StrLess(ts, o)]

\* reversed(sorted(snapshots.keys())): the first one inside the window
selected(snapshots, start_time, end_time) ==
    LET inw == {ts \in DOMAIN snapshots : InWindow(ts, start_time, end_time)}
    IN  IF inw = {} THEN None
        ELSE [t |-> "ts",
              ts |-> CHOOSE ts \in inw : \A o \in inw : o = ts \/ StrLess(o, ts)]

merged(data, ts) ==
    ("cached_at" :> ts) @@ data.snapshots[ts] @@ data.static

\* sorted(os.listdir(json_dir)) over the file names of the model
FileOrder == <<"42", "7", "md5-D">>

\* the loop of load_cache ending at the first file that does not parse or
\* has another shape, as if the try were around the whole loop
Matching_until_corrupt(fs, start_time, end_time, keys) ==
    LET bad == {i \in 1..Len(FileOrder) : fs[FileOrder[i]].kind \in {"garbage", "legacy"}}
        cut == IF bad = {} THEN Len(FileOrder)
               ELSE (CHOOSE i \in bad : \A o \in bad : i <= o) - 1
    IN  SelectSeq(SubSeq(FileOrder, 1, cut),
            LAMBDA fn :
                /\ fs[fn].kind # "absent"
                /\ (keys = None \/ Len(keys.l) = 0 \/ fn \in filenames_to_load(keys.l))
                /\ selected(fs[fn].snapshots, start_time, end_time) # None)

\* the files of file_list that pass the key filter and yield a view
Matching(fs, start_time, end_time, keys) ==
    SelectSeq(FileOrder,
        LAMBDA fn :
            /\ fs[fn].kind # "absent"
            /\ (keys = None \/ Len(keys.l) = 0 \/ fn \in filenames_to_load(keys.l))
            /\ IsUnified(fs[fn])
            /\ selected(fs[fn].snapshots, start_time, end_time) # None)

\* the limit argument when it is an int
Limit(n) == [t |-> "int", n |-> n]

\* limit counted from the start of the matching files, not from offset
Page_limit_from_start(m, limit, offset) ==
    LET from == IF offset < Len(m) THEN offset + 1 ELSE Len(m) + 1
        upto == IF limit = None \/ limit.n = 0 \/ limit.n > Len(m)
                THEN Len(m)
                ELSE limit.n
    IN  SubSeq(m, from, upto)

\* count, items_found, offset and limit: the matching files from position
\* offset on, at most limit of them when limit is set and not 0
Page(m, limit, offset) ==
    LET from == IF offset < Len(m) THEN offset + 1 ELSE Len(m) + 1
        upto == IF limit = None \/ limit.n = 0 \/ from + limit.n - 1 > Len(m)
                THEN Len(m)
                ELSE from + limit.n - 1
    IN  SubSeq(m, from, upto)

load_cache(fs, start_time, end_time, keys, limit, offset) ==
    LET m == Page(Matching(fs, start_time, end_time, keys), limit, offset)
    IN  [i \in 1..Len(m) |->
            merged(fs[m[i]], selected(fs[m[i]].snapshots, start_time, end_time).ts)]

\* load_cache(keys=[key]), as the watchlist loop and the tests call it
load_key(fs, key) == load_cache(fs, None, None, [t |-> "keys", l |-> <<key>>], None, 0)

----------------------------------------------------------------------------
(* cache.py: the handlers of upsert_cache (lines 161-164): both log and    *)
(* go on with the next item.                                               *)

\* the handler lets the error out of upsert_cache
on_item_error_raise(item, why) == "raise"

on_item_error(item, why) == "continue"

----------------------------------------------------------------------------
(* server.py: BuffAutoNotificationServer._evaluate_condition.  A call      *)
(* returns a truth value or raises: float() raises TypeError on None and   *)
(* ValueError on a string that is no number.                               *)

PriceThreshold(field, op, value) ==
    [condition_type |-> "price_threshold", target_field |-> field,
     operator |-> op, value |-> value]
CountThreshold(field, value) ==
    [condition_type |-> "count_threshold", target_field |-> field,
     operator |-> ">", value |-> value]
AiEvaluation ==
    [condition_type |-> "ai_evaluation", target_field |-> "",
     operator |-> "", value |-> 0]

\* evaluate_with_ai: pass, which returns None
evaluate_with_ai == FALSE

\* item_data.get(field, 0): the default only stands in for an absent field
get_or_zero(item_data, field) ==
    IF field \in DOMAIN item_data THEN item_data[field] ELSE Num(0)

\* float(x) raises
float_raises(x) == x.t # "num"

\* lines 252 and 266: the call raises in float()
evaluate_raises(condition, item_data) ==
    \/ /\ condition.condition_type = "price_threshold"
       /\ float_raises(get_or_zero(item_data, condition.target_field))
    \/ /\ condition.condition_type = "ai_evaluation"
       /\ float_raises(get_or_zero(item_data, "sell_min_price"))

\* the call returns, and what it returns is true
evaluate_condition(condition, item_data) ==
    IF evaluate_raises(condition, item_data) THEN FALSE
    ELSE IF condition.condition_type = "price_threshold"
    THEN LET current_value == get_or_zero(item_data, condition.target_field).n
         IN  \/ condition.operator = "<" /\ current_value < condition.value
             \/ condition.operator = ">" /\ current_value > condition.value
    ELSE IF condition.condition_type = "ai_evaluation"
    THEN evaluate_with_ai
    ELSE FALSE

----------------------------------------------------------------------------
(* The user records (user_data.yaml under user_data_base_dir), the server  *)
(* configuration and the requests of the web server.                       *)

\* the names a user record may be stored under: two mail addresses and a
\* name that is no mail address
Usernames == {"a@x.io", "b@x.io"}
AccountNames == Usernames \cup {"guest"}

\* an optional string: None, or Email(s) with s possibly empty
Email(s) == [t |-> "str", s |-> s]

\* python's "not x" on an optional string
not_(x) == x = None \/ x = Email("")

\* hashlib.sha256(password.encode('utf-8')).hexdigest()
hash_password(password) == <<"sha256", password>>

NoUserFile == [t |-> "absent"]
\* a user_data.yaml that yaml.safe_load cannot read
UnreadableUserFile == [t |-> "unreadable"]

UserData(password_hash, buff_cookies, email) ==
    [t |-> "user", password_hash |-> password_hash, buff_cookies |-> buff_cookies,
     notification_settings |-> [email |-> email, check_frequency_minutes |-> 30],
     watchlist |-> <<>>]

NoUserFiles == [u \in AccountNames |-> NoUserFile]

\* server_config.yaml as the constructor finds it ("ok", "missing" or
\* "invalid"), and whether _setup_email_server got a logged-in SMTP client
Config(state, smtp) == [state |-> state, smtp |-> smtp]

NoReply == [op |-> "none", name |-> "", password |-> "", ok |-> TRUE, message |-> ""]

MaxRequests == 2
ReqIds == 1..MaxRequests

NewRequest == [pc |-> "new", username |-> "", server |-> 0, message |-> ""]

\* no user record and a readable configuration: the store and the worker
\* of one user are looked at on their own
InitNoAccounts ==
    /\ user_files = NoUserFiles
    /\ config = Config("ok", TRUE)

----------------------------------------------------------------------------
(* Calls of upsert_cache, one item of the batch per step, and the clock.   *)

NoFiles == [fn \in FileNames |-> Absent]

\* json_dir as a process may find it at start: empty, or holding a file of an
\* older layout, or one cut short by a crash
InitStores ==
    {NoFiles, [NoFiles EXCEPT !["42"] = Legacy], [NoFiles EXCEPT !["7"] = Garbage]}

IconOutcomes == {"skipped", "downloaded", "raised"}

NoQuery == [t |-> "none"]

\* no user loaded: the store is used on its own
NoUser ==
    [watchlist |-> <<>>, check_frequency |-> 0, api_call_delay |-> 0,
     buff |-> FALSE, email |-> ""]

\* the threads that may run upsert_cache at the same time: the workers of two
\* users, or a worker and a search request of the web server
Writers == {1, 2}

InitCalls ==
    /\ now = 0
    /\ batch = <<>>
    /\ done = <<>>
    /\ upc = "idle"
    /\ nup = 0
    /\ last = [fn \in FileNames |-> None]
    /\ result = <<>>
    /\ query = NoQuery
    /\ pcw = [w \in Writers |-> "idle"]
    /\ witem = [w \in Writers |-> G7]
    /\ wts = [w \in Writers |-> 0]
    /\ wbuf = [w \in Writers |-> Absent]
    /\ lpc = "idle"
    /\ idx = 0
    /\ cached_items = <<>>
    /\ keys_left = <<>>
    /\ api_response = <<>>
    /\ calls = <<>>
    /\ n_evaluated = 0
    /\ emails = <<>>
    /\ reply = NoReply
    /\ reqs = [r \in ReqIds |-> NewRequest]
    /\ query_servers = [u \in AccountNames |-> "none"]
    /\ servers = <<>>
    /\ workers = {}
    /\ mail = <<>>

\* the cache manager without icon_download_delay_seconds in the settings
\* (server.py:25, cache.py:109) and an empty image_dir
InitCommon ==
    /\ InitCalls
    /\ icon_download_delay_seconds = 0
    /\ images = {}

InitStoreOnly ==
    /\ InitCommon
    /\ InitNoAccounts
    /\ cfg = NoUser

\* the wall clock advances
Tick ==
    /\ now < MaxTime
    /\ now' = now + 1
    /\ UNCHANGED <<srvVars, iconVars, files, batch, done, upc, nup, last, result, query, raceVars, loopVars>>

\* upsert_cache(items) is called
UpsertBegin(items) ==
    /\ upc = "idle"
    /\ nup + Len(items) <= MaxUpserts
    /\ batch' = items
    /\ done' = <<>>
    /\ upc' = "running"
    /\ nup' = nup + Len(items)
    /\ result' = <<>>
    /\ query' = NoQuery
    /\ UNCHANGED <<srvVars, iconVars, files, now, last, raceVars, loopVars>>

\* one pass of the loop of upsert_cache, over the next item of the batch
UpsertStep(icon) ==
    /\ upc = "running"
    /\ batch # <<>>
    /\ LET item == Head(batch)
           fn == get_filename(item)
           did_download == fn # IdentityError /\ icon = "downloaded"
           woke == after_delay(now, did_download,
                               icon_download_delay_seconds * TicksPerSecond,
                               last_icon_download_time(done))
           r == upsert_item(files, item, woke, icon)
       IN  /\ icon = "downloaded" => fn \notin images
           /\ woke <= MaxTime
           /\ now' = woke
           /\ images' = IF did_download THEN images \cup {fn} ELSE images
           /\ files' = r.files
           /\ done' = Append(done, [item |-> item, ts |-> woke, icon |-> icon,
                                  ok |-> r.ok, why |-> r.why, started |-> now])
           /\ last' = IF r.ok
                      THEN [last EXCEPT ![get_filename(item)] =
                                [t |-> "up", ts |-> now, item |-> item]]
                      ELSE last
           /\ IF r.ok \/ on_item_error(item, r.why) = "continue"
              THEN batch' = Tail(batch) /\ upc' = upc
              ELSE batch' = <<>> /\ upc' = "raised"
    /\ UNCHANGED <<srvVars, icon_download_delay_seconds, nup, result, query, raceVars,
                   loopVars>>

\* upsert_cache returns
UpsertReturn ==
    /\ upc = "running"
    /\ batch = <<>>
    /\ upc' = "idle"
    /\ UNCHANGED <<srvVars, iconVars, files, now, batch, done, nup, last, result, query, raceVars, loopVars>>

\* load_cache(start_time, end_time, keys) is called and returns
Query(start_time, end_time, keys) ==
    /\ upc = "idle"
    /\ result' = load_cache(files, start_time, end_time, keys, None, 0)
    /\ query' = [t |-> "q", start_time |-> start_time, end_time |-> end_time, keys |-> keys,
                  had |-> {fn \in FileNames : last[fn] # None}]
    /\ UNCHANGED <<srvVars, iconVars, files, now, batch, done, upc, nup, last, raceVars, loopVars>>

----------------------------------------------------------------------------
(* Spec: the store under calls of upsert_cache with one item each, from an *)
(* empty json_dir.                                                         *)

StoreGoods == {G42hi, G42lo, G42re, G7, GD, GX}

Init ==
    /\ files = NoFiles
    /\ InitStoreOnly

Next ==
    \/ Tick
    \/ \E item \in StoreGoods : UpsertBegin(<<item>>)
    \/ \E icon \in {"skipped", "downloaded"} : UpsertStep(icon)
    \/ UpsertReturn

Spec == Init /\ [][Next]_vars

----------------------------------------------------------------------------
(* SpecQuery: one good upserted over time, and load_cache over every       *)
(* window.                                                                 *)

Iso(t) == [t |-> "iso", s |-> isoformat(t)]
OptTimes == {None} \cup {Iso(t) : t \in 0..MaxTime}
KeyLists == {None}

NextQuery ==
    \/ Tick
    \/ \E item \in {G42hi, G42lo, G7} : UpsertBegin(<<item>>)
    \/ UpsertStep("skipped")
    \/ UpsertReturn
    \/ \E s, e \in OptTimes : \E k \in KeyLists : Query(s, e, k)

SpecQuery == Init /\ [][NextQuery]_vars

----------------------------------------------------------------------------
(* SpecPage: goods with and without a numeric id upserted into a json_dir  *)
(* that may hold a damaged file, and load_cache with keys, a window, limit *)
(* and offset.                                                             *)

\* a load_cache that removes the files it cannot use
QueryPage_healing(start_time, keys, limit, offset) ==
    /\ upc = "idle"
    /\ result' = load_cache(files, start_time, None, keys, limit, offset)
    /\ query' = [t |-> "page", start_time |-> start_time, end_time |-> None,
                  keys |-> keys, had |-> {fn \in FileNames : last[fn] # None},
                  limit |-> limit, offset |-> offset]
    /\ files' = [fn \in FileNames |->
                    IF files[fn].kind \in {"garbage", "legacy"} THEN Absent ELSE files[fn]]
    /\ UNCHANGED <<srvVars, iconVars, now, batch, done, upc, nup, last, raceVars, loopVars>>

\* load_cache(start_time=..., keys=..., limit=..., offset=...) is called and
\* returns
QueryPage(start_time, keys, limit, offset) ==
    /\ upc = "idle"
    /\ result' = load_cache(files, start_time, None, keys, limit, offset)
    /\ query' = [t |-> "page", start_time |-> start_time, end_time |-> None,
                  keys |-> keys, had |-> {fn \in FileNames : last[fn] # None},
                  limit |-> limit, offset |-> offset]
    /\ UNCHANGED <<srvVars, iconVars, files, now, batch, done, upc, nup, last, raceVars, loopVars>>

Keys(l) == [t |-> "keys", l |-> l]

PageGoods == {G42hi, G7, GD}
PageKeys == {None, Keys(<<StrKey("07"), StrKey("D")>>)}
PageLimits == {None, Limit(1), Limit(2)}
PageOffsets == {0, 1, 2}

InitPage ==
    /\ files \in InitStores
    /\ InitStoreOnly

NextPage ==
    \/ Tick
    \/ \E item \in PageGoods : UpsertBegin(<<item>>)
    \/ UpsertStep("skipped")
    \/ UpsertReturn
    \/ \E k \in PageKeys, l \in PageLimits, o \in PageOffsets :
          QueryPage(Iso(1), k, l, o)

SpecPage == InitPage /\ [][NextPage]_vars

----------------------------------------------------------------------------
(* SpecBatch: one call of upsert_cache with a batch of several items, on a *)
(* json_dir that may hold a damaged file.                                  *)

BatchGoods == {G42hi, G7, GX}

RECURSIVE SeqsUpTo(_, _)
SeqsUpTo(S, n) ==
    IF n = 0 THEN {<<>>}
    ELSE LET shorter == SeqsUpTo(S, n - 1)
         IN  shorter \cup {Append(q, x) : q \in {r \in shorter : Len(r) = n - 1}, x \in S}

InitBatch ==
    /\ files \in InitStores
    /\ InitStoreOnly

NextBatch ==
    \/ Tick
    \/ \E items \in SeqsUpTo(BatchGoods, MaxUpserts) \ {<<>>} : nup = 0 /\ UpsertBegin(items)
    \/ \E icon \in IconOutcomes : UpsertStep(icon)
    \/ UpsertReturn

SpecBatch == InitBatch /\ [][NextBatch]_vars

----------------------------------------------------------------------------
(* SpecIcons: one call of upsert_cache over goods with and without an icon *)
(* to fetch, with and without icon_download_delay_seconds in the settings, *)
(* on an image_dir that may hold an icon already.  The goods include one   *)
(* whose id is 0.                                                          *)

WithInfo(item, info) == ("goods_info" :> info) @@ item

G42icon == WithInfo(G42hi, GoodsInfo("u42"))
G7icon == WithInfo(G7, GoodsInfo("u7"))
GDicon == WithInfo(GD, GoodsInfo("uD"))
G42nullinfo == WithInfo(G42hi, NullInfo)
G7nourl == WithInfo(G7, GoodsInfo(""))
G0 == Good(0, "D", "B", "C", 80, 2)
G0anon == Without(G0, {"market_hash_name"})

IconGoods == {G42icon, G7icon, GDicon, G42nullinfo, G7nourl, G0, G0anon}

\* icon_download_delay_seconds of server_settings
IconDelays == {0, 1}

\* one pass of the loop of upsert_cache, _download_icon included
UpsertStepIcon(fetch) ==
    /\ batch # <<>>
    /\ UpsertStep(download_icon(Head(batch), get_filename(Head(batch)) \in images, fetch))

InitIcons ==
    /\ files = NoFiles
    /\ InitCalls
    /\ InitNoAccounts
    /\ cfg = NoUser
    /\ icon_download_delay_seconds \in IconDelays
    /\ images \in {{}, {"42"}}

NextIcons ==
    \/ Tick
    \/ \E items \in SeqsUpTo(IconGoods, MaxUpserts) \ {<<>>} : nup = 0 /\ UpsertBegin(items)
    \/ \E fetch \in FetchOutcomes : UpsertStepIcon(fetch)
    \/ UpsertReturn

SpecIcons == InitIcons /\ [][NextIcons]_vars

----------------------------------------------------------------------------
(* SpecRace: upsert_cache running in two threads at once, each over one    *)
(* item, and load_cache in a third.  The code takes no lock, so the steps  *)
(* of the loop body interleave: the clock read (line 129), the existence   *)
(* test (132), the load of the file (134-135), open(..., 'w'), which       *)
(* empties the file (144, 157), and json.dump with the close, after which  *)
(* the file holds the new content (145, 158).                              *)

RaceGoods == {G42hi, G42lo, G7}

WFile(w) == get_filename(witem[w])

WBegin(w, item) ==
    /\ pcw[w] = "idle"
    /\ nup < MaxUpserts
    /\ nup' = nup + 1
    /\ witem' = [witem EXCEPT ![w] = item]
    /\ pcw' = [pcw EXCEPT ![w] = "time"]
    /\ UNCHANGED <<srvVars, iconVars, files, now, batch, done, upc, last, result, query, wts, wbuf, loopVars>>

WTime(w) ==
    /\ pcw[w] = "time"
    /\ wts' = [wts EXCEPT ![w] = now]
    /\ pcw' = [pcw EXCEPT ![w] = "exists"]
    /\ UNCHANGED <<srvVars, iconVars, storeVars, witem, wbuf, loopVars>>

WExists(w) ==
    /\ pcw[w] = "exists"
    /\ IF files[WFile(w)].kind = "absent"
       THEN /\ wbuf' = [wbuf EXCEPT ![w] = created(witem[w], isoformat(wts[w]))]
            /\ pcw' = [pcw EXCEPT ![w] = "open"]
       ELSE /\ wbuf' = wbuf
            /\ pcw' = [pcw EXCEPT ![w] = "load"]
    /\ UNCHANGED <<srvVars, iconVars, storeVars, witem, wts, loopVars>>

\* json.load raises on a file it cannot parse, and the item is skipped
WLoad(w) ==
    /\ pcw[w] = "load"
    /\ IF files[WFile(w)].kind = "garbage"
       THEN /\ pcw' = [pcw EXCEPT ![w] = "idle"]
            /\ done' = Append(done, [item |-> witem[w], ts |-> wts[w], icon |-> "skipped",
                                     ok |-> FALSE, why |-> "unreadable"])
            /\ wbuf' = wbuf
            /\ witem' = [witem EXCEPT ![w] = G7]
            /\ wts' = [wts EXCEPT ![w] = 0]
       ELSE /\ pcw' = [pcw EXCEPT ![w] = "open"]
            /\ wbuf' = [wbuf EXCEPT ![w] =
                            appended(files[WFile(w)], witem[w], isoformat(wts[w]))]
            /\ done' = done
            /\ UNCHANGED <<witem, wts>>
    /\ UNCHANGED <<srvVars, iconVars, files, now, batch, upc, nup, last, result, query, loopVars>>

WOpen(w) ==
    /\ pcw[w] = "open"
    /\ files' = [files EXCEPT ![WFile(w)] = Garbage]
    /\ pcw' = [pcw EXCEPT ![w] = "dump"]
    /\ UNCHANGED <<srvVars, iconVars, now, batch, done, upc, nup, last, result, query, witem, wts, wbuf, loopVars>>

WDump(w) ==
    /\ pcw[w] = "dump"
    /\ files' = [files EXCEPT ![WFile(w)] = wbuf[w]]
    /\ last' = [last EXCEPT ![WFile(w)] = [t |-> "up", ts |-> wts[w], item |-> witem[w]]]
    /\ done' = Append(done, [item |-> witem[w], ts |-> wts[w], icon |-> "skipped",
                             ok |-> TRUE, why |-> "written"])
    /\ pcw' = [pcw EXCEPT ![w] = "idle"]
    /\ witem' = [witem EXCEPT ![w] = G7]
    /\ wts' = [wts EXCEPT ![w] = 0]
    /\ wbuf' = [wbuf EXCEPT ![w] = Absent]
    /\ UNCHANGED <<srvVars, iconVars, now, batch, upc, nup, result, query, loopVars>>

NextRace ==
    \/ Tick
    \/ \E w \in Writers : \E item \in RaceGoods : WBegin(w, item)
    \/ \E w \in Writers : WTime(w)
    \/ \E w \in Writers : WExists(w)
    \/ \E w \in Writers : WLoad(w)
    \/ \E w \in Writers : WOpen(w)
    \/ \E w \in Writers : WDump(w)
    \/ Query(None, None, [t |-> "keys", l |-> <<IntKey(42)>>])

SpecRace == Init /\ [][NextRace]_vars

----------------------------------------------------------------------------
(* server.py: BuffAutoNotificationServer._check_user_watchlist, the worker *)
(* thread of one user.  The clock counts ticks; the check frequency is in  *)
(* minutes and the delay between entries in seconds, as in the settings.   *)

MaxMinutes == 2
MaxOtherUpserts == 1
SecondsPerMinute == 60

\* the last clock value of the runs of the worker
LoopHorizon == MaxMinutes * SecondsPerMinute * TicksPerSecond

\* timedelta(minutes=m) and time.sleep's seconds, in ticks
minutes(m) == m * SecondsPerMinute * TicksPerSecond
seconds(s) == s * TicksPerSecond

\* int(goods_id) where it parses, else goods_id itself (lines 145-149)
coerce(goods_id) ==
    IF goods_id \in {"0", "7", "42"}
    THEN IntKey(CHOOSE n \in {0, 7, 42} : Str(n) = goods_id)
    ELSE StrKey(goods_id)

\* d.get(k) of a name: the name, or a value that "if not search_key" skips
\* (None and '' alike, written "")
GetName(d, k) == IF k \in DOMAIN d THEN d[k] ELSE ""

\* lines 154-164: stale with >= in place of >
is_stale_at_threshold(items, t, frequency) ==
    IF items = <<>> THEN TRUE
    ELSE t - fromisoformat(items[1]["cached_at"]) >= minutes(frequency)

\* lines 154-164: is_stale, which stays True without a view
is_stale(items, t, frequency) ==
    IF items = <<>> THEN TRUE
    ELSE t - fromisoformat(items[1]["cached_at"]) > minutes(frequency)

\* the list of the for loop with the short name first
search_keys_short_first(mh_name, short_name, human_name) ==
    <<short_name, mh_name, human_name>>

\* lines 185 and 208: the list the for loop runs over
search_keys(mh_name, short_name, human_name) == <<mh_name, short_name, human_name>>

\* lines 179-183: the names of the cached view, when there is one
cached_names(items) ==
    IF items = <<>> THEN search_keys("", "", "")
    ELSE search_keys(GetName(items[1], "market_hash_name"),
                     GetName(items[1], "short_name"),
                     GetName(items[1], "name"))

\* what get_goods_info returns: None, or a dict with goods_infos and items
NoInfo == [t |-> "none"]
Info(goods_infos, items) == [t |-> "info", goods_infos |-> goods_infos, items |-> items]

\* lines 196-207: the names resolved from info
resolved_names(info, goods_id) ==
    IF info = NoInfo THEN search_keys("", "", "")
    ELSE LET gi == IF goods_id \in DOMAIN info.goods_infos
                   THEN info.goods_infos[goods_id] ELSE Empty
             gi_mh == GetName(gi, "market_hash_name")
             gi_name == GetName(gi, "name")
         IN  IF gi_name = "" /\ info.items # <<>>
             THEN LET first_item == info.items[1]
                  IN  search_keys(
                        IF gi_mh # "" THEN gi_mh
                        ELSE GetName(first_item, "market_hash_name"),
                        GetName(first_item, "short_name"),
                        GetName(first_item, "name"))
             ELSE search_keys(gi_mh, "", gi_name)

\* upsert_cache(api_response) as one call at clock value ts; icons[i] is
\* what the icon download of item i did
RECURSIVE upsert_all(_, _, _, _)
upsert_all(fs, items, ts, icons) ==
    IF items = <<>> THEN fs
    ELSE upsert_all(upsert_item(fs, Head(items), ts, Head(icons)).files,
                    Tail(items), ts, Tail(icons))

\* lines 234-241 without the break: the loop goes on after a notification
RECURSIVE evaluate_loop_no_break(_, _, _)
evaluate_loop_no_break(conditions, view, from) ==
    IF from > Len(conditions) THEN <<>>
    ELSE LET fired == evaluate_condition(conditions[from], view)
             raised == evaluate_raises(conditions[from], view)
         IN  <<[cond |-> from, fired |-> fired, raised |-> raised]>>
             \o IF raised THEN <<>>
                ELSE evaluate_loop_no_break(conditions, view, from + 1)

\* lines 234-241: the calls of _evaluate_condition the for loop makes from
\* position from on, each with its result; the loop breaks after the first
\* condition that fires, and a call that raises ends it
RECURSIVE evaluate_loop(_, _, _)
evaluate_loop(conditions, view, from) ==
    IF from > Len(conditions) THEN <<>>
    ELSE LET fired == evaluate_condition(conditions[from], view)
             raised == evaluate_raises(conditions[from], view)
         IN  <<[cond |-> from, fired |-> fired, raised |-> raised]>>
             \o IF fired \/ raised THEN <<>>
                ELSE evaluate_loop(conditions, view, from + 1)

Alert(i, j, view) == [kind |-> "alert", entry |-> i, cond |-> j, view |-> view]
Failure(i) == [kind |-> "failure", entry |-> i, cond |-> 0, view |-> Empty]

\* one entry of the watchlist dict: its key and its settings
Entry(goods_id, conditions) == [goods_id |-> goods_id, conditions |-> conditions]

Below90 == PriceThreshold("sell_min_price", "<", 90)
Above50 == PriceThreshold("sell_min_price", ">", 50)

\* the watchlists of the users of the model, in the order of the dict
Watchlists ==
    {<<>>,
     <<Entry("42", <<Below90, Above50>>)>>,
     <<Entry("42", <<AiEvaluation, Above50>>), Entry("D", <<Below90>>)>>}

Frequencies == {1, 2}
Delays == {0, 1}

\* what search_goods_list may return
Responses == {<<>>, <<G42lo>>, <<G7>>}

\* what get_goods_info may return
Infos ==
    {NoInfo,
     Info("42" :> Without(G42lo, {"short_name"}), <<>>),
     Info(Empty, <<G42lo>>)}

InitLoop ==
    /\ files = NoFiles
    /\ InitCommon
    /\ InitNoAccounts
    /\ \E w \in Watchlists, f \in Frequencies, d \in Delays, b \in BOOLEAN :
          /\ (w = <<>> => f = 1 /\ d = 0 /\ b)
          /\ cfg = [watchlist |-> w, check_frequency |-> f, api_call_delay |-> d,
                    buff |-> b, email |-> "owner"]

entry == cfg.watchlist[idx]
key == coerce(entry.goods_id)

\* the next entry of the for loop, or the end of the pass (line 245)
GoOn ==
    IF idx < Len(cfg.watchlist)
    THEN idx' = idx + 1 /\ lpc' = "load"
    ELSE idx' = 0 /\ lpc' = "sleep_pass"

\* time.sleep(s): the thread goes on s seconds later, or a tick after that
Sleep(s) ==
    \E late \in {0, 1} :
        /\ now + seconds(s) + late <= LoopHorizon
        /\ now' = now + seconds(s) + late

\* line 139: the while loop reads the watchlist and starts a pass
PassStart ==
    /\ lpc = "idle"
    /\ emails' = <<>>
    /\ IF cfg.watchlist = <<>>
       THEN idx' = 0 /\ lpc' = "sleep_pass"
       ELSE idx' = 1 /\ lpc' = "load"
    /\ UNCHANGED <<srvVars, iconVars, storeVars, raceVars, cfg, cached_items, keys_left, api_response,
                   calls, n_evaluated>>

\* line 151: cached_items = load_cache(keys=[key])
LoadEntry ==
    /\ lpc = "load"
    /\ cached_items' = load_key(files, key)
    /\ calls' = <<>>
    /\ n_evaluated' = 0
    /\ api_response' = <<>>
    /\ keys_left' = <<>>
    /\ lpc' = "check"
    /\ UNCHANGED <<srvVars, iconVars, storeVars, raceVars, cfg, idx, emails>>

\* the branch of line 166 taken whatever the staleness test said
CheckStale_always_refresh ==
    /\ lpc = "check"
    /\ IF cfg.buff
       THEN /\ keys_left' = cached_names(cached_items)
            /\ lpc' = "search1"
       ELSE /\ keys_left' = keys_left
            /\ lpc' = "sleep_item"
    /\ UNCHANGED <<srvVars, iconVars, storeVars, raceVars, cfg, idx, cached_items, api_response, calls,
                   n_evaluated, emails>>

\* lines 154-183: the staleness test and the branch on it
CheckStale ==
    /\ lpc = "check"
    /\ IF is_stale(cached_items, now, cfg.check_frequency)
       THEN IF cfg.buff
            THEN /\ keys_left' = cached_names(cached_items)
                 /\ lpc' = "search1"
            ELSE /\ keys_left' = keys_left
                 /\ lpc' = "sleep_item"
       ELSE /\ keys_left' = keys_left
            /\ lpc' = "evaluate"
    /\ UNCHANGED <<srvVars, iconVars, storeVars, raceVars, cfg, idx, cached_items, api_response, calls,
                   n_evaluated, emails>>

\* lines 185-190 and 208-213: one turn of a for loop over search keys
SearchStep(response) ==
    /\ lpc \in {"search1", "search2"}
    /\ keys_left # <<>>
    /\ IF Head(keys_left) = ""
       THEN /\ response = <<>>
            /\ keys_left' = Tail(keys_left)
            /\ UNCHANGED <<api_response, calls>>
       ELSE /\ api_response' = response
            /\ calls' = Append(calls, [op |-> "search", key |-> Head(keys_left),
                                      hit |-> response # <<>>, raised |-> FALSE])
            /\ keys_left' = IF response # <<>> THEN <<>> ELSE Tail(keys_left)
    /\ UNCHANGED <<srvVars, iconVars, storeVars, raceVars, cfg, lpc, idx, cached_items, n_evaluated,
                   emails>>

\* search_goods_list raises: outside the try in the first loop, where it ends
\* the thread, and caught by line 214 in the second
SearchRaises ==
    /\ lpc \in {"search1", "search2"}
    /\ keys_left # <<>> /\ Head(keys_left) # ""
    /\ calls' = Append(calls, [op |-> "search", key |-> Head(keys_left),
                              hit |-> FALSE, raised |-> TRUE])
    /\ keys_left' = <<>>
    /\ lpc' = IF lpc = "search1" THEN "dead" ELSE "store"
    /\ UNCHANGED <<srvVars, iconVars, storeVars, raceVars, cfg, idx, cached_items, api_response,
                   n_evaluated, emails>>

\* line 193 without the isinstance test: the by-ID lookup for any key
SearchEnd_any_key ==
    /\ lpc \in {"search1", "search2"}
    /\ keys_left = <<>>
    /\ lpc' = IF lpc = "search1" /\ api_response = <<>> THEN "byid" ELSE "store"
    /\ UNCHANGED <<srvVars, iconVars, storeVars, raceVars, cfg, idx, cached_items, keys_left,
                   api_response, calls, n_evaluated, emails>>

\* the end of a for loop over search keys: lines 193 and 217
SearchEnd ==
    /\ lpc \in {"search1", "search2"}
    /\ keys_left = <<>>
    /\ lpc' = IF lpc = "search1" /\ api_response = <<>> /\ key.t = "int"
              THEN "byid" ELSE "store"
    /\ UNCHANGED <<srvVars, iconVars, storeVars, raceVars, cfg, idx, cached_items, keys_left,
                   api_response, calls, n_evaluated, emails>>

\* lines 195-207: get_goods_info returns info
GetInfo(info) ==
    /\ lpc = "byid"
    /\ calls' = Append(calls, [op |-> "info", key |-> entry.goods_id,
                              hit |-> info # NoInfo, raised |-> FALSE])
    /\ keys_left' = resolved_names(info, entry.goods_id)
    /\ lpc' = "search2"
    /\ UNCHANGED <<srvVars, iconVars, storeVars, raceVars, cfg, idx, cached_items, api_response,
                   n_evaluated, emails>>

\* get_goods_info raises: caught by line 214
GetInfoRaises ==
    /\ lpc = "byid"
    /\ calls' = Append(calls, [op |-> "info", key |-> entry.goods_id,
                              hit |-> FALSE, raised |-> TRUE])
    /\ lpc' = "store"
    /\ UNCHANGED <<srvVars, iconVars, storeVars, raceVars, cfg, idx, cached_items, keys_left,
                   api_response, n_evaluated, emails>>

\* lines 217-219 and 231: upsert_cache(api_response), the re-read, and the
\* continue on an empty re-read
Refresh(icons) ==
    /\ lpc = "store"
    /\ api_response # <<>>
    /\ LET fs == upsert_all(files, api_response, now, icons)
           reread == load_key(fs, key)
       IN  /\ files' = fs
           /\ cached_items' = reread
           /\ IF reread = <<>>
              THEN GoOn
              ELSE idx' = idx /\ lpc' = "evaluate"
    /\ UNCHANGED <<srvVars, iconVars, now, batch, done, upc, nup, last, result, query, raceVars,
                   cfg, keys_left, api_response, calls, n_evaluated, emails>>

\* lines 220-229 without the continue: after the failure message the entry
\* goes on to line 231 with the view it had
ResolveFailed_falls_through ==
    /\ lpc = "store"
    /\ api_response = <<>>
    /\ emails' = Append(emails, Failure(idx))
    /\ IF cached_items = <<>> THEN GoOn ELSE idx' = idx /\ lpc' = "evaluate"
    /\ UNCHANGED <<srvVars, iconVars, storeVars, raceVars, cfg, cached_items, keys_left, api_response,
                   calls, n_evaluated>>

\* lines 220-229: no strategy gave a result; the failure message and continue
ResolveFailed ==
    /\ lpc = "store"
    /\ api_response = <<>>
    /\ emails' = Append(emails, Failure(idx))
    /\ GoOn
    /\ UNCHANGED <<srvVars, iconVars, storeVars, raceVars, cfg, cached_items, keys_left, api_response,
                   calls, n_evaluated>>

\* the for loop over the conditions taking the conditions of an entry that
\* fired off the watchlist
Evaluate_disarming ==
    /\ lpc = "evaluate"
    /\ LET cached_item == cached_items[1]
           trace == evaluate_loop(entry.conditions, cached_item, 1)
           fired == SelectSeq(trace, LAMBDA e : e.fired)
           raised == trace # <<>> /\ Last(trace).raised
           key_error == fired # <<>> /\ "name" \notin DOMAIN cached_item
       IN  /\ n_evaluated' = Len(trace)
           /\ emails' = IF key_error THEN emails
                         ELSE emails \o [i \in 1..Len(fired) |->
                                            Alert(idx, fired[i].cond, cached_item)]
           /\ cfg' = IF fired = <<>> THEN cfg
                      ELSE [cfg EXCEPT !.watchlist[idx].conditions = <<>>]
           /\ lpc' = IF raised \/ key_error THEN "dead" ELSE "sleep_item"
    /\ UNCHANGED <<srvVars, iconVars, storeVars, raceVars, idx, cached_items, keys_left,
                   api_response, calls>>

\* lines 232-241: the for loop over the conditions of the entry.  Nothing
\* here is inside a try: a call of _evaluate_condition that raises, or a
\* view without 'name' when the alert is written (line 236), ends the thread.
Evaluate ==
    /\ lpc = "evaluate"
    /\ LET cached_item == cached_items[1]
           trace == evaluate_loop(entry.conditions, cached_item, 1)
           fired == SelectSeq(trace, LAMBDA e : e.fired)
           raised == trace # <<>> /\ Last(trace).raised
           key_error == fired # <<>> /\ "name" \notin DOMAIN cached_item
       IN  /\ n_evaluated' = Len(trace)
           /\ emails' = IF key_error THEN emails
                         ELSE emails \o [i \in 1..Len(fired) |->
                                            Alert(idx, fired[i].cond, cached_item)]
           /\ lpc' = IF raised \/ key_error THEN "dead" ELSE "sleep_item"
    /\ UNCHANGED <<srvVars, iconVars, storeVars, raceVars, cfg, idx, cached_items, keys_left,
                   api_response, calls>>

\* lines 170-171 and 243: time.sleep(api_call_delay), then the next entry
SleepItem ==
    /\ lpc = "sleep_item"
    /\ Sleep(cfg.api_call_delay)
    /\ GoOn
    /\ UNCHANGED <<srvVars, iconVars, files, batch, done, upc, nup, last, result, query, raceVars,
                   cfg, cached_items, keys_left, api_response, calls, n_evaluated,
                   emails>>

\* line 245: time.sleep(frequency * 60), then the next turn of the while loop
SleepPass ==
    /\ lpc = "sleep_pass"
    /\ Sleep(cfg.check_frequency * SecondsPerMinute)
    /\ lpc' = "idle"
    /\ UNCHANGED <<srvVars, iconVars, files, batch, done, upc, nup, last, result, query, raceVars,
                   cfg, idx, cached_items, keys_left, api_response, calls,
                   n_evaluated, emails>>

\* upsert_cache([item]) in another thread (the worker of another user, or a
\* search request of the web server), on the json_dir the threads share
OtherUpsert(item) ==
    /\ nup < MaxOtherUpserts
    /\ nup' = nup + 1
    /\ files' = upsert_item(files, item, now, "skipped").files
    /\ UNCHANGED <<srvVars, iconVars, now, batch, done, upc, last, result, query, raceVars, loopVars>>

NextLoop ==
    \/ PassStart
    \/ LoadEntry
    \/ CheckStale
    \/ \E response \in Responses : SearchStep(response)
    \/ SearchRaises
    \/ SearchEnd
    \/ \E info \in Infos : GetInfo(info)
    \/ GetInfoRaises
    \/ \E icons \in [1..Len(api_response) -> {"skipped", "raised"}] :
          Refresh([i \in 1..Len(api_response) |-> icons[i]])
    \/ ResolveFailed
    \/ Evaluate
    \/ SleepItem
    \/ SleepPass
    \/ OtherUpsert(G42hi)

SpecLoop == InitLoop /\ [][NextLoop]_vars

----------------------------------------------------------------------------
(* SpecEval: the first pass of a worker over one entry whose view is in    *)
(* the cache and fresh, for every list of up to two conditions and views   *)
(* whose price is a number, null, a string that is no number, or absent.   *)

G42at90 == Good(42, "A", "B", "C", 90, 6)
G42null == [G42lo EXCEPT !["sell_min_price"] = Null]
G42text == [G42lo EXCEPT !["sell_min_price"] = Text]
G42noprice == Without(G42lo, {"sell_min_price"})

EvalGoods == {G42lo, G42at90, G42null, G42text, G42noprice}

Above90 == PriceThreshold("sell_min_price", ">", 90)
Equal90 == PriceThreshold("sell_min_price", "=", 90)
Stocked == PriceThreshold("sell_num", ">", 1)

EvalConditions ==
    {Below90, Above50, Above90, Equal90, Stocked, CountThreshold("sell_num", 1),
     AiEvaluation}

MaxConditions == 2

InitEval ==
    /\ InitCommon
    /\ InitNoAccounts
    /\ \E g \in EvalGoods : files = upsert_item(NoFiles, g, now, "skipped").files
    /\ \E conditions \in SeqsUpTo(EvalConditions, MaxConditions) \ {<<>>} :
          cfg = [watchlist |-> <<Entry("42", conditions)>>, check_frequency |-> 1,
                 api_call_delay |-> 0, buff |-> TRUE, email |-> "owner"]

NextEval ==
    \/ PassStart
    \/ LoadEntry
    \/ CheckStale
    \/ Evaluate

SpecEval == InitEval /\ [][NextEval]_vars

----------------------------------------------------------------------------
(* SpecLive: the worker thread of one user under fair scheduling, with     *)
(* marketplace calls that all return.  A response may hold a good whose    *)
(* price is null.  The clock of the model ends at LoopHorizon: a sleep     *)
(* that would pass it is not taken.                                        *)

LiveWatchlists ==
    {<<>>,
     <<Entry("42", <<Below90>>)>>,
     <<Entry("42", <<Below90>>), Entry("D", <<Below90>>)>>}

LiveResponses == {<<>>, <<G42lo>>, <<G42null>>}

InitLive ==
    /\ files = NoFiles
    /\ InitCommon
    /\ InitNoAccounts
    /\ \E w \in LiveWatchlists, d \in Delays :
          cfg = [watchlist |-> w, check_frequency |-> 1, api_call_delay |-> d,
                 buff |-> TRUE, email |-> "owner"]

NextLive ==
    \/ PassStart
    \/ LoadEntry
    \/ CheckStale
    \/ \E response \in LiveResponses : SearchStep(response)
    \/ SearchEnd
    \/ \E info \in Infos : GetInfo(info)
    \/ Refresh([i \in 1..Len(api_response) |-> "skipped"])
    \/ ResolveFailed
    \/ Evaluate
    \/ SleepItem
    \/ SleepPass

\* the thread is scheduled again and again, and every call it makes returns
SpecLive == InitLive /\ [][NextLive]_vars /\ WF_vars(NextLive)

----------------------------------------------------------------------------
(* SpecAccounts: the user records under registration through              *)
(* UserRegistration.register_user (the web server's /api/register),        *)
(* registration through BuffAutoNotificationUser(..., is_registration=     *)
(* True), and /api/update_cookie.                                          *)

Passwords == {"p", "q"}
Cookies == {"c", "expired"}

Reply(op, name, password, ok, message) ==
    [op |-> op, name |-> name, password |-> password, ok |-> ok, message |-> message]

\* registration.py: _validate_email, on the names of the model
validate_email(email) == email \in Usernames

\* register_user without the test of line 46
register_user_overwriting(email, password) ==
    /\ IF ~validate_email(email)
       THEN /\ reply' = Reply("register_user", email, password, FALSE, "invalid email")
            /\ user_files' = user_files
       ELSE /\ reply' = Reply("register_user", email, password, TRUE, "registered")
            /\ user_files' = [user_files EXCEPT ![email] =
                                 UserData(hash_password(password), "", Email(email))]
    /\ UNCHANGED <<storeVars, iconVars, raceVars, loopVars, config, reqs, query_servers, servers,
                   workers, mail>>

\* registration.py: UserRegistration.register_user(email, password)
register_user(email, password) ==
    /\ IF ~validate_email(email)
       THEN /\ reply' = Reply("register_user", email, password, FALSE, "invalid email")
            /\ user_files' = user_files
       ELSE IF user_files[email] # NoUserFile
       THEN /\ reply' = Reply("register_user", email, password, FALSE, "exists")
            /\ user_files' = user_files
       ELSE /\ reply' = Reply("register_user", email, password, TRUE, "registered")
            /\ user_files' = [user_files EXCEPT ![email] =
                                 UserData(hash_password(password), "", Email(email))]
    /\ UNCHANGED <<storeVars, iconVars, raceVars, loopVars, config, reqs, query_servers, servers,
                   workers, mail>>

\* user.py: BuffAutoNotificationUser(username, password, is_registration=True).
\* The record is stored before BuffAccount(buffcookie='') is made; client_ok
\* is whether that constructor returns.
new_user(username, password, client_ok) ==
    /\ IF user_files[username] # NoUserFile
       THEN /\ reply' = Reply("new_user", username, password, FALSE, "User already exists.")
            /\ user_files' = user_files
       ELSE /\ reply' = IF client_ok
                        THEN Reply("new_user", username, password, TRUE, "registered")
                        ELSE Reply("new_user", username, password, FALSE,
                                   "Failed to initialize BuffAccount.")
            /\ user_files' = [user_files EXCEPT ![username] =
                                 UserData(hash_password(password), "", None)]
    /\ UNCHANGED <<storeVars, iconVars, raceVars, loopVars, config, reqs, query_servers, servers,
                   workers, mail>>

\* web_server.py: /api/update_cookie
update_cookie(username, buff_cookies) ==
    /\ IF user_files[username] = NoUserFile
       THEN /\ reply' = Reply("update_cookie", username, "", FALSE, "no user")
            /\ user_files' = user_files
       ELSE IF user_files[username] = UnreadableUserFile
       THEN /\ reply' = Reply("update_cookie", username, "", FALSE, "failed")
            /\ user_files' = user_files
       ELSE /\ reply' = Reply("update_cookie", username, "", TRUE, "updated")
            /\ user_files' = [user_files EXCEPT ![username].buff_cookies = buff_cookies]
    /\ UNCHANGED <<storeVars, iconVars, raceVars, loopVars, config, reqs, query_servers, servers,
                   workers, mail>>

InitAccounts ==
    /\ files = NoFiles
    /\ InitStoreOnly

NextAccounts ==
    \/ \E email \in AccountNames, password \in Passwords : register_user(email, password)
    \/ \E username \in AccountNames, password \in Passwords, client_ok \in BOOLEAN :
          new_user(username, password, client_ok)
    \/ \E username \in AccountNames, buff_cookies \in Cookies :
          update_cookie(username, buff_cookies)

SpecAccounts == InitAccounts /\ [][NextAccounts]_vars

----------------------------------------------------------------------------
(* SpecRegister: /api/register requests running at the same time.  The web *)
(* server handles each request in a thread of its own (app.run, line 436), *)
(* and register_user takes no lock, so its steps interleave: the tests of  *)
(* lines 39-47, open(config_path, 'w'), which creates or empties the file  *)
(* (65), and yaml.dump with the close (66).                                *)

\* a user_data.yaml that has been opened for writing and not written yet
EmptyUserFile == [t |-> "empty"]

Registration(pc, email, password, ok, message) ==
    [pc |-> pc, username |-> email, server |-> 0, message |-> message,
     password |-> password, ok |-> ok]

\* lines 39-47: the tests of the address and of os.path.exists(config_path)
RegisterTests(r, email, password) ==
    /\ reqs[r].pc = "new"
    /\ reqs' = [reqs EXCEPT ![r] =
                   IF ~validate_email(email)
                   THEN Registration("done", email, password, FALSE, "invalid email")
                   ELSE IF user_files[email] # NoUserFile
                   THEN Registration("done", email, password, FALSE, "exists")
                   ELSE Registration("tested", email, password, FALSE, "")]
    /\ UNCHANGED <<storeVars, iconVars, raceVars, loopVars, user_files, config, reply,
                   query_servers, servers, workers, mail>>

\* lines 50-65: makedirs(exist_ok=True) and open(config_path, 'w'); an
\* exception out of open is caught at line 68
RegisterOpen(r, open_ok) ==
    /\ reqs[r].pc = "tested"
    /\ IF open_ok
       THEN /\ user_files' = [user_files EXCEPT ![reqs[r].username] = EmptyUserFile]
            /\ reqs' = [reqs EXCEPT ![r].pc = "opened"]
       ELSE /\ user_files' = user_files
            /\ reqs' = [reqs EXCEPT ![r] =
                           Registration("done", reqs[r].username, reqs[r].password,
                                        FALSE, "failed")]
    /\ UNCHANGED <<storeVars, iconVars, raceVars, loopVars, config, reply, query_servers,
                   servers, workers, mail>>

\* lines 66-67: yaml.dump, the close of the file, and return True
RegisterDump(r) ==
    /\ reqs[r].pc = "opened"
    /\ user_files' = [user_files EXCEPT ![reqs[r].username] =
                         UserData(hash_password(reqs[r].password), "",
                                  Email(reqs[r].username))]
    /\ reqs' = [reqs EXCEPT ![r] =
                   Registration("done", reqs[r].username, reqs[r].password,
                                TRUE, "registered")]
    /\ UNCHANGED <<storeVars, iconVars, raceVars, loopVars, config, reply, query_servers,
                   servers, workers, mail>>

InitRegister ==
    /\ files = NoFiles
    /\ InitStoreOnly

NextRegister ==
    \/ \E r \in ReqIds, email \in AccountNames, password \in Passwords :
          RegisterTests(r, email, password)
    \/ \E r \in ReqIds, open_ok \in BOOLEAN : RegisterOpen(r, open_ok)
    \/ \E r \in ReqIds : RegisterDump(r)

SpecRegister == InitRegister /\ [][NextRegister]_vars

----------------------------------------------------------------------------
(* server.py: BuffAutoNotificationServer._send_email and its callers.      *)
(* kind stands for the subject and the content of a message: "alert"       *)
(* (lines 236-240), "failure" (222-228) or "startup" (66-74).              *)

MaxMail == 2

MailKinds == {"alert", "failure", "startup"}

\* _send_email without the test of the debug flag in line 106
send_email_ignoring_debug(to_email, kind, debug_mode, smtp, sendmail_ok) ==
    [to |-> to_email, kind |-> kind, debug_mode |-> debug_mode,
     sink |-> IF not_(to_email) THEN "log"
              ELSE IF ~smtp THEN "none"
              ELSE IF sendmail_ok THEN "smtp" ELSE "failed"]

\* _send_email(to_email, subject, content, debug_mode): the call and what
\* became of the message: "log" (lines 106-112, printed only), "none" (no
\* email server, 114-116), "smtp" (handed to sendmail, 125) or "failed"
\* (sendmail raised, 127-128)
send_email(to_email, kind, debug_mode, smtp, sendmail_ok) ==
    [to |-> to_email, kind |-> kind, debug_mode |-> debug_mode,
     sink |-> IF not_(to_email) \/ debug_mode THEN "log"
              ELSE IF ~smtp THEN "none"
              ELSE IF sendmail_ok THEN "smtp" ELSE "failed"]

\* user_data.get('notification_settings', {}).get('email')
email_of(user_data) == user_data.notification_settings.email

\* a call of _send_email with any arguments
SendEmail(to_email, kind, debug_mode, sendmail_ok) ==
    /\ Len(mail) < MaxMail
    /\ mail' = Append(mail, send_email(to_email, kind, debug_mode, config.smtp,
                                        sendmail_ok))
    /\ UNCHANGED <<storeVars, iconVars, raceVars, loopVars, user_files, config, reply, reqs,
                   query_servers, servers, workers>>

\* the calls the server makes for a user: to_email is the user's setting and
\* debug_mode is "not to_email"
Notify(username, kind, sendmail_ok) ==
    /\ user_files[username].t = "user"
    /\ LET to_email == email_of(user_files[username])
       IN  SendEmail(to_email, kind, not_(to_email), sendmail_ok)

\* the users of SpecNotify: one with an address, one registered through
\* user.py (email None), one with an empty address
NotifyUsers ==
    [NoUserFiles EXCEPT
        !["a@x.io"] = UserData(hash_password("p"), "c", Email("a@x.io")),
        !["b@x.io"] = UserData(hash_password("p"), "c", None),
        !["guest"] = UserData(hash_password("p"), "c", Email(""))]

InitNotify ==
    /\ files = NoFiles
    /\ InitCommon
    /\ cfg = NoUser
    /\ user_files = NotifyUsers
    /\ \E smtp \in BOOLEAN : config = Config("ok", smtp)

NextNotify ==
    \/ \E username \in AccountNames, kind \in MailKinds, sendmail_ok \in BOOLEAN :
          Notify(username, kind, sendmail_ok)
    \/ \E to_email \in {None, Email(""), Email("a@x.io")}, kind \in MailKinds,
          debug_mode \in BOOLEAN, sendmail_ok \in BOOLEAN :
          SendEmail(to_email, kind, debug_mode, sendmail_ok)

SpecNotify == InitNotify /\ [][NextNotify]_vars

----------------------------------------------------------------------------
(* SpecServer: /api/start_query of the web server, the construction of a   *)
(* BuffAutoNotificationServer, its start() and the worker threads.         *)
(* Requests are handled by threads of the web server, so the steps of two  *)
(* requests interleave.                                                    *)

\* os.listdir(user_dir_base), in the order the constructor visits it
UserOrder == <<"a@x.io", "b@x.io", "guest">>

\* BuffAccount(buffcookie=cookies) raises for cookies that are no longer
\* valid
client_raises(cookies) == cookies = "expired"

\* _load_all_users: the users loaded, or the user whose client could not
\* be made.  A user_data.yaml that cannot be read is skipped.
RECURSIVE load_all_users(_, _, _)
load_all_users(ufs, order, users) ==
    IF order = <<>> THEN [ok |-> TRUE, users |-> users, failed |-> ""]
    ELSE LET username == Head(order)
         IN  IF ufs[username].t # "user"
             THEN load_all_users(ufs, Tail(order), users)
             ELSE IF client_raises(ufs[username].buff_cookies)
             THEN [ok |-> FALSE, users |-> {}, failed |-> username]
             ELSE load_all_users(ufs, Tail(order), users \cup {username})

\* web_server.py lines 101-116: the tests of api_start_query before it
\* starts a server
ApiStartQuery(r, username) ==
    /\ reqs[r].pc = "new"
    /\ reqs' = [reqs EXCEPT ![r] =
                  IF username = ""
                  THEN [pc |-> "done", username |-> username, server |-> 0,
                        message |-> "no username"]
                  ELSE IF user_files[username] = NoUserFile
                  THEN [pc |-> "done", username |-> username, server |-> 0,
                        message |-> "no user"]
                  ELSE IF query_servers[username] = "running"
                  THEN [pc |-> "done", username |-> username, server |-> 0,
                        message |-> "already running"]
                  ELSE [pc |-> "construct", username |-> username, server |-> 0,
                        message |-> ""]]
    /\ UNCHANGED <<storeVars, iconVars, raceVars, loopVars, user_files, config, reply,
                   query_servers, servers, workers, mail>>

\* web_server.py line 58, server.py lines 19-87: BuffAutoNotificationServer()
\* inside the try of start_query_server.  A configuration that cannot be
\* loaded and a client that cannot be made raise; the latter after a
\* message to the user.
Construct(r, sendmail_ok) ==
    /\ reqs[r].pc = "construct"
    /\ LET loaded == load_all_users(user_files, UserOrder, {})
       IN  IF config.state # "ok"
           THEN /\ reqs' = [reqs EXCEPT ![r].pc = "done", ![r].message = "failed"]
                /\ UNCHANGED <<servers, mail>>
           ELSE IF ~loaded.ok
           THEN /\ reqs' = [reqs EXCEPT ![r].pc = "done", ![r].message = "failed"]
                /\ mail' = Append(mail,
                               LET to_email == email_of(user_files[loaded.failed])
                               IN  send_email(to_email, "startup", not_(to_email),
                                              config.smtp, sendmail_ok))
                /\ UNCHANGED servers
           ELSE /\ servers' = Append(servers, [users |-> loaded.users,
                                               thread |-> FALSE, started |-> FALSE])
                /\ reqs' = [reqs EXCEPT ![r].pc = "thread",
                                        ![r].server = Len(servers) + 1]
                /\ UNCHANGED mail
    /\ UNCHANGED <<storeVars, iconVars, raceVars, loopVars, user_files, config, reply,
                   query_servers, workers>>

\* web_server.py lines 74-88: the thread that runs server.start() is
\* started and the server is entered in query_servers
StartThread(r) ==
    /\ reqs[r].pc = "thread"
    /\ servers' = [servers EXCEPT ![reqs[r].server].thread = TRUE]
    /\ query_servers' = [query_servers EXCEPT ![reqs[r].username] = "running"]
    /\ reqs' = [reqs EXCEPT ![r].pc = "done", ![r].message = "started"]
    /\ UNCHANGED <<storeVars, iconVars, raceVars, loopVars, user_files, config, reply, workers,
                   mail>>

\* server.py lines 290-297: start() starts a worker thread for every user
\* the server has loaded
ServerStart(s) ==
    /\ servers[s].thread /\ ~servers[s].started
    /\ servers' = [servers EXCEPT ![s].started = TRUE]
    /\ workers' = workers \cup
                    {[server |-> s, user |-> u, alive |-> TRUE] : u \in servers[s].users}
    /\ UNCHANGED <<storeVars, iconVars, raceVars, loopVars, user_files, config, reply, reqs,
                   query_servers, mail>>

\* server.py lines 185-190 and 234-241: an exception raised outside any try
\* leaves _check_user_watchlist and ends the thread
WorkerRaises(w) ==
    /\ w \in workers /\ w.alive
    /\ workers' = (workers \ {w}) \cup {[w EXCEPT !.alive = FALSE]}
    /\ UNCHANGED <<storeVars, iconVars, raceVars, loopVars, user_files, config, reply, reqs,
                   query_servers, servers, mail>>

\* the user records the server may find
ServerUsers ==
    {[NoUserFiles EXCEPT
         !["a@x.io"] = UserData(hash_password("p"), cookies, Email("a@x.io")),
         !["b@x.io"] = b] :
     cookies \in Cookies,
     b \in {UserData(hash_password("q"), "c", None), UnreadableUserFile}}

InitServer ==
    /\ files = NoFiles
    /\ InitCommon
    /\ cfg = NoUser
    /\ user_files \in ServerUsers
    /\ config \in {Config("ok", TRUE), Config("missing", FALSE), Config("invalid", FALSE)}

NextServer ==
    \/ \E r \in ReqIds, username \in AccountNames \cup {""} : ApiStartQuery(r, username)
    \/ \E r \in ReqIds, sendmail_ok \in BOOLEAN : Construct(r, sendmail_ok)
    \/ \E r \in ReqIds : StartThread(r)
    \/ \E s \in 1..Len(servers) : ServerStart(s)
    \/ \E w \in workers : WorkerRaises(w)

SpecServer == InitServer /\ [][NextServer]_vars

----------------------------------------------------------------------------
(* Claims on the store *)

Snapshots(fn) == files[fn].snapshots

\* C1: append-only. Every step leaves, in every well-formed record, each
\* snapshot timestamp in place and mapped to the dynamic fields it had.
C1_AppendOnly ==
    [][\A fn \in FileNames :
          IsUnified(files[fn]) =>
              /\ IsUnified(files'[fn])
              /\ \A ts \in DOMAIN files[fn].snapshots :
                    /\ ts \in DOMAIN files'[fn].snapshots
                    /\ files'[fn].snapshots[ts] = files[fn].snapshots[ts]]_vars

\* the view a record yields for one of its timestamps, written out field by field
ViewAt(fn, ts) ==
    LET st == files[fn].static
        sn == files[fn].snapshots[ts]
    IN  [k \in DOMAIN st \cup DOMAIN sn \cup {"cached_at"} |->
            IF k = "cached_at" THEN ts
            ELSE IF k \in DOMAIN sn THEN sn[k] ELSE st[k]]

\* the timestamps of a record whose time lies in the window of the last query
InQueryWindow(fn) ==
    {ts \in DOMAIN Snapshots(fn) :
        /\ query.start_time # None => fromisoformat(query.start_time.s) <= fromisoformat(ts)
        /\ query.end_time # None => fromisoformat(ts) <= fromisoformat(query.end_time.s)}

LatestByTime(T) == CHOOSE ts \in T : \A o \in T : fromisoformat(o) <= fromisoformat(ts)

Asked(fn) ==
    query.keys = None \/ \E i \in 1..Len(query.keys.l) : filename_to_load(query.keys.l[i]) = fn

\* C2: merge correctness. load_cache returns, for every record it was asked
\* for, exactly static merged with the snapshot of the greatest time inside
\* the window and cached_at, and nothing when no snapshot time is inside.
C2_MergeCorrectness ==
    query # NoQuery =>
        LET hits == {fn \in FileNames :
                        IsUnified(files[fn]) /\ Asked(fn) /\ InQueryWindow(fn) # {}}
        IN  /\ Len(result) = Cardinality(hits)
            /\ \A fn \in hits :
                  \E i \in 1..Len(result) :
                      result[i] = ViewAt(fn, LatestByTime(InQueryWindow(fn)))

C2_Witness ==
    /\ query # NoQuery
    /\ query.start_time # None /\ query.end_time # None
    /\ Len(result) = 1
    /\ IsUnified(files["42"])
    /\ result[1]["id"] = 42
    /\ Cardinality(InQueryWindow("42")) >= 2
    /\ \E ts \in DOMAIN Snapshots("42") :
          fromisoformat(ts) > fromisoformat(result[1]["cached_at"])

Cond90 == PriceThreshold("sell_min_price", "<", 90)

\* C3: the latest upsert is the current view. load_cache(keys=[id]) returns
\* one view, with the dynamic fields and the timestamp of the latest upsert of
\* that good, and sell_min_price < 90 fires on it iff that upsert's price is
\* below 90.
C3_LatestUpsertIsCurrentView ==
    \A n \in {7, 42} :
        last[Str(n)] # None =>
            LET views == load_key(files, IntKey(n))
                item == last[Str(n)].item
            IN  /\ Len(views) = 1
                /\ views[1]["cached_at"] = isoformat(last[Str(n)].ts)
                /\ \A k \in dynamic_keys :
                      /\ k \in DOMAIN views[1] <=> k \in DOMAIN item
                      /\ k \in DOMAIN item => views[1][k] = item[k]
                /\ evaluate_condition(Cond90, views[1]) <=> item["sell_min_price"].n < 90

C3_Witness ==
    /\ last["42"] # None
    /\ last["42"].item = G42lo
    /\ \E ts \in DOMAIN Snapshots("42") :
          /\ Snapshots("42")[ts]["sell_min_price"] = Num(100)
          /\ fromisoformat(ts) < last["42"].ts
    /\ evaluate_condition(Cond90, load_key(files, IntKey(42))[1])

\* C4: idempotent static fields. An upsert of an item whose static fields
\* equal the stored ones leaves static as it is and changes the record only
\* by one more snapshot entry.
C4_IdempotentStatic ==
    [][\A fn \in FileNames :
          (/\ upc = "running" /\ batch # <<>>
           /\ get_filename(Head(batch)) = fn
           /\ IsUnified(files[fn])
           /\ static_part(Head(batch)) = files[fn].static
           /\ done' # done /\ Last(done').ok)
          => /\ files'[fn].static = files[fn].static
             /\ Cardinality(DOMAIN files'[fn].snapshots)
                    = Cardinality(DOMAIN files[fn].snapshots) + 1
             /\ \A ts \in DOMAIN files[fn].snapshots :
                    /\ ts \in DOMAIN files'[fn].snapshots
                    /\ files'[fn].snapshots[ts] = files[fn].snapshots[ts]]_vars

\* the per-item failures: no usable identity, an unreadable existing record,
\* an error out of the icon download
Fails(d) ==
    \/ get_filename(d.item) = IdentityError
    \/ d.icon = "raised"
    \/ files[get_filename(d.item)].kind = "garbage"

C8_NoLostUpdate ==
    (\A w \in Writers : pcw[w] = "idle") =>
        \A i \in 1..Len(done) :
            LET fn == get_filename(done[i].item)
            IN  /\ IsUnified(files[fn])
                /\ isoformat(done[i].ts) \in DOMAIN Snapshots(fn)

\* C9: no torn reads. A load_cache for a record that has been written before
\* returns a view of it, whatever upsert runs at the same time.
C9_NoTornReads ==
    (query # NoQuery /\ "42" \in query.had) => Len(result) = 1

----------------------------------------------------------------------------
(* Claims on the watchlist loop *)

\* the age of the view the worker holds, and the check frequency, in ticks
ViewAge == now - fromisoformat(cached_items[1]["cached_at"])
FrequencyTicks == cfg.check_frequency * SecondsPerMinute * TicksPerSecond

\* C5: staleness threshold. When the worker makes the staleness test of an
\* entry it takes the refresh branch iff it holds no cached view or the view
\* is older than the check frequency F, strictly: a view exactly F minutes
\* old is evaluated as it is.
C5_StalenessThreshold ==
    [][(lpc = "check" /\ lpc' # "check") =>
         ((lpc' # "evaluate") <=> (cached_items = <<>> \/ ViewAge > FrequencyTicks))]_vars

\* a view exactly F minutes old was taken as fresh: no call was made and its
\* conditions are about to be evaluated
C5_Witness ==
    /\ lpc = "evaluate"
    /\ calls = <<>>
    /\ cached_items # <<>>
    /\ ViewAge = FrequencyTicks

\* the text searches made for the current entry before any by-ID lookup
FirstSearches ==
    LET infos == {i \in 1..Len(calls) : calls[i].op = "info"}
        n == IF infos = {} THEN Len(calls)
             ELSE (CHOOSE i \in infos : \A o \in infos : i <= o) - 1
    IN  SubSeq(calls, 1, n)

\* the worker is resolving the current entry: cached_items still is the view
\* the names were read from
Resolving == lpc \in {"search1", "byid", "search2", "store", "dead"}

\* C6: resolver ordering. While a stale entry with cached names A, B, C is
\* refreshed, the text searches are made for A, B, C in this order, a search
\* that returns a result is the last call made for the entry, and when A
\* misses and B hits there are exactly these two calls: no search for C and
\* no by-ID lookup.
C6_ResolverOrdering ==
    /\ (Resolving /\ cached_items # <<>>) =>
          LET view == cached_items[1]
              order == <<view["market_hash_name"], view["short_name"], view["name"]>>
          IN  /\ Len(FirstSearches) <= 3
              /\ \A i \in 1..Len(FirstSearches) : FirstSearches[i].key = order[i]
    /\ \A i \in 1..Len(calls) :
          (calls[i].op = "search" /\ calls[i].hit) => i = Len(calls)
    /\ (/\ Len(calls) >= 2
        /\ calls[1] = [op |-> "search", key |-> "A", hit |-> FALSE, raised |-> FALSE]
        /\ calls[2] = [op |-> "search", key |-> "B", hit |-> TRUE, raised |-> FALSE])
       => Len(calls) = 2 /\ lpc \notin {"byid", "search2"}

\* only the search for B gave a result: A was tried, then B, and the result
\* is about to be stored
C6_Witness ==
    /\ lpc = "store"
    /\ cached_items # <<>>
    /\ cached_items[1]["name"] = "C"
    /\ calls = <<[op |-> "search", key |-> "A", hit |-> FALSE, raised |-> FALSE],
                 [op |-> "search", key |-> "B", hit |-> TRUE, raised |-> FALSE]>>

IsAlert(e) == e.kind = "alert"

\* C7: at most one notification per entry per pass. The messages of a pass
\* hold at most one alert per watch entry; the alert is for a condition that
\* fires on the view while no condition before it in the list does, and no
\* condition after it was evaluated.
C7_OneAlertPerEntry ==
    /\ \A i, j \in 1..Len(emails) :
          (IsAlert(emails[i]) /\ IsAlert(emails[j]) /\ emails[i].entry = emails[j].entry)
              => i = j
    /\ \A i \in 1..Len(emails) :
          IsAlert(emails[i]) =>
             LET e == emails[i]
                 conditions == cfg.watchlist[e.entry].conditions
             IN  /\ evaluate_condition(conditions[e.cond], e.view)
                 /\ \A k \in 1..(e.cond - 1) : ~evaluate_condition(conditions[k], e.view)
                 /\ (lpc = "sleep_item" /\ e.entry = idx) => n_evaluated = e.cond

\* an alert went out for the first condition of an entry whose second
\* condition fires on the same view
C7_Witness ==
    /\ lpc = "sleep_item"
    /\ \E i \in 1..Len(emails) :
          /\ IsAlert(emails[i])
          /\ emails[i].entry = idx
          /\ emails[i].cond = 1
          /\ LET conditions == cfg.watchlist[idx].conditions
             IN  Len(conditions) >= 2 /\ evaluate_condition(conditions[2], emails[i].view)

\* C11: per-entry error containment. No error raised while an entry is
\* processed (a marketplace call that fails, a field value float() rejects, a
\* view without a name) ends the worker: the thread is never dead.
C11_ErrorContainment == lpc # "dead"

\* C12: transport errors count as empty results. A search_goods_list call
\* that raises is treated as a search that returned nothing: the for loop it
\* was made in goes on with the next search key.
C12_TransportErrorIsEmptyResult ==
    [][(/\ Len(calls') = Len(calls) + 1
        /\ Last(calls').op = "search"
        /\ Last(calls').raised)
       => (lpc' = lpc /\ keys_left' = Tail(keys_left))]_vars

\* C13: resolution failure is reported and non-fatal. When the resolution of
\* an entry ends without a result, the worker sends one failure message for
\* the entry, evaluates none of its conditions and goes on to the next entry
\* (or ends the pass); the messages of a pass hold nothing else for an entry
\* that has a failure message, and conditions are evaluated after a
\* resolution only when it gave a result.
C13_FailureReported ==
    [][/\ (lpc = "store" /\ lpc' # "store" /\ api_response = <<>>) =>
             /\ emails' = Append(emails, Failure(idx))
             /\ n_evaluated' = 0
             /\ \/ idx' = idx + 1 /\ lpc' = "load"
                \/ idx = Len(cfg.watchlist) /\ lpc' = "sleep_pass"
       /\ (lpc = "store" /\ lpc' = "evaluate") => api_response # <<>>
       /\ \A i, j \in 1..Len(emails') :
             (emails'[i].kind = "failure" /\ emails'[j].entry = emails'[i].entry)
                 => i = j]_vars

\* every call made for entry 1 missed, its failure message is the only
\* message of the pass, and the worker is at entry 2
C13_Witness ==
    /\ lpc = "load"
    /\ idx = 2
    /\ emails = <<Failure(1)>>
    /\ Len(calls) >= 2
    /\ \A i \in 1..Len(calls) : ~calls[i].hit /\ ~calls[i].raised

\* C14: inter-item delay. Whenever the worker goes from one entry of a pass
\* to the next, at least the inter-item delay passes in that step.
C14_InterItemDelay ==
    [][(idx # 0 /\ idx' = idx + 1) => now' >= now + seconds(cfg.api_call_delay)]_vars

----------------------------------------------------------------------------
(* Claims on load_cache with keys, limit and offset *)

\* the records load_cache was asked for that are well-formed and have a
\* snapshot in the window, in the order of their identity keys
PageHits ==
    SelectSeq(FileOrder,
        LAMBDA fn : IsUnified(files[fn]) /\ Asked(fn) /\ InQueryWindow(fn) # {})

Min(a, b) == IF a < b THEN a ELSE b

NamedBy(fn, k) ==
    \/ k.t = "int" /\ Str(k.n) = fn
    \/ k.t = "str" /\ k.s \in NumericStrings /\ Str(int_of(k.s)) = fn
    \/ k.t = "str" /\ Get(files[fn].static, "market_hash_name") = k.s

\* C16: key filter. An unpaged load_cache(keys=K) returns a view of a stored
\* good iff the good has a snapshot in the window and a key of K names it,
\* by its numeric id or by its market_hash_name.
C16_KeyFilter ==
    (query.t = "page" /\ query.keys # None /\ query.limit = None /\ query.offset = 0) =>
        \A fn \in FileNames :
            IsUnified(files[fn]) =>
                ((\E i \in 1..Len(result) :
                     /\ result[i]["cached_at"] \in DOMAIN Snapshots(fn)
                     /\ ViewAt(fn, result[i]["cached_at"]) = result[i])
                 <=> (/\ InQueryWindow(fn) # {}
                      /\ \E i \in 1..Len(query.keys.l) : NamedBy(fn, query.keys.l[i])))

\* C30: corrupt records do not break reads. load_cache returns, whatever
\* files of the directory do not parse or have another shape, the views of
\* the well-formed records that pass the key filter and have a snapshot in
\* the window, from position offset on and at most limit of them: a corrupt
\* record yields no view, ends no read and takes up no position.
C30_CorruptRecordsSkipped ==
    query.t = "page" =>
        LET first == Min(query.offset, Len(PageHits))
            last_ == IF query.limit = None THEN Len(PageHits)
                     ELSE Min(query.offset + query.limit.n, Len(PageHits))
        IN  /\ Len(result) = last_ - first
            /\ \A i \in 1..Len(result) :
                  LET fn == PageHits[first + i]
                  IN  /\ IsUnified(files[fn])
                      /\ result[i] = ViewAt(fn, LatestByTime(InQueryWindow(fn)))

\* the file between two well-formed records does not parse, and the read
\* from offset 1 returned the view of the record after it
C30_Witness ==
    /\ query.t = "page"
    /\ query.keys = None /\ query.limit = None /\ query.offset = 1
    /\ files["7"].kind = "garbage"
    /\ PageHits = <<"42", "md5-D">>
    /\ Len(result) = 1
    /\ result[1]["market_hash_name"] = "D"

----------------------------------------------------------------------------
(* Claims on malformed records *)

\* the item upsert_cache has just processed, and its file
Processed == Last(done').item
ProcessedFile == get_filename(Processed)

\* C17: destructive rebuild on shape mismatch. When upsert_cache processes
\* an item whose record exists without the {static, snapshots} shape, the
\* record afterwards is exactly the static fields of the item and one
\* snapshot, under the time of the upsert, with the item's dynamic fields.
C17_DestructiveRebuild ==
    [][(/\ Len(done') = Len(done) + 1
        /\ ProcessedFile # IdentityError
        /\ Last(done').icon # "raised"
        /\ files[ProcessedFile].kind = "legacy")
       => files'[ProcessedFile] =
             [kind |-> "unified",
              static |-> Restrict(Processed, static_keys \cap DOMAIN Processed),
              snapshots |-> (isoformat(Last(done').ts) :>
                               Restrict(Processed, dynamic_keys \cap DOMAIN Processed))]]_vars

\* the first item of the call had a record of another shape, which held
\* another name: the record now holds the item's name and one snapshot
C17_Witness ==
    /\ Len(done) = 1
    /\ done[1].ok /\ done[1].why = "appended"
    /\ done[1].item = G42hi
    /\ IsUnified(files["42"])
    /\ files["42"].static["name"] = "C"
    /\ Cardinality(DOMAIN Snapshots("42")) = 1

\* C18: self-healing of the read path. After upsert_cache has processed an
\* item with a usable identity, its record is well-formed, and when it was
\* the last item for that record, load_cache(keys=[key]) returns a view with
\* the time of that upsert as cached_at.
C18_SelfHealing ==
    \A i \in 1..Len(done) :
        LET d == done[i]
            fn == get_filename(d.item)
        IN  (fn # IdentityError /\ d.icon # "raised") =>
                /\ IsUnified(files[fn])
                /\ (\A j \in (i + 1)..Len(done) : get_filename(done[j].item) # fn) =>
                       LET views == load_key(files, StrKey(fn))
                       IN  Len(views) = 1 /\ views[1]["cached_at"] = isoformat(d.ts)

----------------------------------------------------------------------------
(* Claims on _evaluate_condition *)

\* the entry of SpecEval, its view, and whether an alert was sent for its
\* condition j
Conditions == cfg.watchlist[1].conditions
View == cached_items[1]
Alerted(j) == \E i \in 1..Len(emails) : IsAlert(emails[i]) /\ emails[i].cond = j
Evaluated == lpc \in {"sleep_item", "dead"}

\* the target field as a number: 0 when it is absent, null or no number
AsNumber(view, field) ==
    IF field \in DOMAIN view /\ view[field].t = "num" THEN view[field].n ELSE 0

\* C19: price_threshold semantics. The evaluation of a price_threshold
\* condition never raises, and it fires iff the operator is '<' and v < value
\* or the operator is '>' and v > value, v being the target field as a
\* number, 0 when the field is absent, null or not a number.
C19_PriceThreshold ==
    (Evaluated /\ Conditions[1].condition_type = "price_threshold") =>
        LET c == Conditions[1]
            v == AsNumber(View, c.target_field)
        IN  /\ ~(lpc = "dead" /\ n_evaluated = 1)
            /\ Alerted(1) <=> \/ c.operator = "<" /\ v < c.value
                              \/ c.operator = ">" /\ v > c.value

Inert(c) == c.condition_type \in {"count_threshold", "ai_evaluation"}

\* C20: inert condition types never fire. No alert is sent for a
\* count_threshold or ai_evaluation condition, on any view, and a
\* price_threshold condition that fires is reached when only such conditions
\* stand before it in the list.
C20_InertConditions ==
    Evaluated =>
        \A j \in 1..Len(Conditions) :
            /\ (Inert(Conditions[j]) /\ n_evaluated >= j) => ~Alerted(j)
            /\ (/\ \A k \in 1..(j - 1) : Inert(Conditions[k])
                /\ Conditions[j].condition_type = "price_threshold"
                /\ Conditions[j].target_field \in DOMAIN View
                /\ View[Conditions[j].target_field].t = "num"
                /\ Conditions[j].operator = ">"
                /\ View[Conditions[j].target_field].n > Conditions[j].value)
               => Alerted(j)

----------------------------------------------------------------------------
(* Claims on the by-ID fallback and on the view that is evaluated *)

\* the positions of the by-ID lookups among the calls of the current entry
InfoCalls == {i \in 1..Len(calls) : calls[i].op = "info"}

\* the place of a name of the watched good in the order market_hash_name,
\* short_name, name
NameOrder(k) == CASE k = "A" -> 1 [] k = "B" -> 2 [] k = "C" -> 3 [] OTHER -> 0

C27_EvaluatedViewIsFresh ==
    lpc = "evaluate" => ViewAge <= FrequencyTicks

\* C28: no silent drop of an unresolvable entry. When the refresh of an
\* entry ends, either the worker holds a view of the good with a snapshot
\* stored by this refresh, or a failure message for the entry has been sent.
C28_NoSilentDrop ==
    [][(lpc = "store" /\ lpc' # "store") =>
          \/ emails' = Append(emails, Failure(idx))
          \/ /\ cached_items' # <<>>
             /\ cached_items'[1]["cached_at"] = isoformat(now)]_vars

----------------------------------------------------------------------------
(* Claims on the growth of the snapshot map *)

\* the number of snapshots a file holds; a file that is absent or has
\* another shape holds none
SnapshotCount(c) == IF IsUnified(c) THEN Cardinality(DOMAIN c.snapshots) ELSE 0

\* C25: every upsert adds a new timestamp. Each item upsert_cache processes
\* successfully leaves the snapshot map of its record larger by exactly one
\* entry, also when the good was upserted just before.
C25_EveryUpsertAddsTimestamp ==
    [][(Len(done') = Len(done) + 1 /\ Last(done').ok)
       => SnapshotCount(files'[ProcessedFile])
            = SnapshotCount(files[ProcessedFile]) + 1]_vars

----------------------------------------------------------------------------
(* Claims on the life of the worker *)

\* the worker is inside a pass, at some entry of the watchlist
Scanning ==
    lpc \in {"load", "check", "search1", "byid", "search2", "store", "evaluate",
             "sleep_item"}

\* the clock of the model is so far that the sleep between passes cannot end
HorizonReached == now + minutes(cfg.check_frequency) > LoopHorizon

\* C29: the per-user loop never terminates on its own. An idle worker
\* starts a pass, a worker inside a pass reaches the end of the pass, and a
\* worker at the end of a pass becomes idle again after its sleep (each up
\* to the last clock value of the model).
C29_LoopNeverTerminates ==
    /\ (lpc = "idle") ~> (lpc # "idle")
    /\ Scanning ~> (lpc = "sleep_pass" \/ HorizonReached)
    /\ (lpc = "sleep_pass") ~> (lpc = "idle" \/ HorizonReached)

----------------------------------------------------------------------------
(* Claims on the user records *)

\* C26: duplicate registration is rejected. A registration under a name
\* that has a stored user record fails, with "User already exists." from
\* BuffAutoNotificationUser and with (False, message) from register_user,
\* and leaves every stored record as it was.
C26_DuplicateRegistrationRejected ==
    [][(/\ reply'.op \in {"register_user", "new_user"}
        /\ (reply' # reply \/ user_files' # user_files)
        /\ user_files[reply'.name] # NoUserFile)
       => /\ ~reply'.ok
          /\ reply'.op = "new_user" => reply'.message = "User already exists."
          /\ user_files' = user_files]_vars

\* register_user was called with another password for a user whose record
\* has cookies by now: it failed, and the record holds the old hash and the
\* cookies
C26_Witness ==
    /\ reply.op = "register_user"
    /\ ~reply.ok /\ reply.message = "exists"
    /\ user_files[reply.name] # NoUserFile
    /\ user_files[reply.name].password_hash # hash_password(reply.password)
    /\ user_files[reply.name].buff_cookies = "c"

----------------------------------------------------------------------------
(* Claims on the notifier *)

\* C21: notifier debug fallback. A message handed to _send_email with an
\* empty or missing recipient, or with the debug flag set, is logged and
\* never goes to the email server, whether it is an alert, a resolution
\* failure or a startup notification.
C21_DebugFallback ==
    \A i \in 1..Len(mail) :
        (not_(mail[i].to) \/ mail[i].debug_mode) => mail[i].sink = "log"

\* with a working email server, a startup notification for a user without
\* an address and a message with an address and the debug flag were both
\* logged
C21_Witness ==
    /\ config.smtp
    /\ Len(mail) = 2
    /\ mail[1] = [to |-> None, kind |-> "startup", debug_mode |-> TRUE, sink |-> "log"]
    /\ mail[2].to = Email("a@x.io") /\ mail[2].debug_mode /\ mail[2].sink = "log"

----------------------------------------------------------------------------
(* Claims on the start of the server *)

\* the threads that are scanning the watchlist of a user
Scanners(u) == {w \in workers : w.user = u /\ w.alive}

\* C23: one worker per user. At no time do two worker threads scan the
\* watchlist of the same user, whatever start requests were made.
C23_OneWorkerPerUser ==
    \A u \in AccountNames : Cardinality(Scanners(u)) <= 1

\* the configuration cannot be loaded, or the client of a stored user
\* cannot be made
StartupError ==
    \/ config.state # "ok"
    \/ \E u \in AccountNames :
          user_files[u].t = "user" /\ client_raises(user_files[u].buff_cookies)

\* C24: startup errors are the only fatal errors. With a configuration
\* that cannot be loaded or a client that cannot be made, no server is
\* constructed and no worker started; and a worker that was started is
\* never stopped by an error.
C24_OnlyStartupErrorsFatal ==
    /\ StartupError => (servers = <<>> /\ workers = {})
    /\ \A w \in workers : w.alive

----------------------------------------------------------------------------
(* Claims on the icon downloads of upsert_cache *)

\* the items of the running call whose icon was downloaded
Downloaded == {i \in 1..Len(done) : done[i].icon = "downloaded"}

\* C31: with a positive icon delay, the starts of two consecutive successful
\* icon downloads of one upsert_cache call are at least the delay apart, the
\* first and the second download of the call included.
C31_IconDownloadSpacing ==
    icon_download_delay_seconds > 0 =>
        \A i, j \in Downloaded :
            (i < j /\ ~\E k \in Downloaded : i < k /\ k < j) =>
                done[j].started - done[i].started
                    >= icon_download_delay_seconds * TicksPerSecond

\* C32: whatever _download_icon did for an item that has an identity key, the
\* same upsert_cache call writes the snapshot of the item to its record.
C32_IconOffCriticalPath ==
    \A i \in 1..Len(done) :
        LET fn == get_filename(done[i].item)
        IN  fn # IdentityError =>
                /\ done[i].ok
                /\ IsUnified(files[fn])
                /\ isoformat(done[i].ts) \in DOMAIN files[fn].snapshots

----------------------------------------------------------------------------
(* Claims on the identity key *)

\* the key as stated: the string of the id whenever the item has one, else
\* the hash of market_hash_name, and no key when it has neither
StatedKey(item) ==
    IF "id" \in DOMAIN item THEN Str(item["id"])
    ELSE IF "market_hash_name" \in DOMAIN item /\ item["market_hash_name"] # ""
         THEN Md5(item["market_hash_name"])
         ELSE IdentityError

\* C34: upsert_cache files every item under the string of its id when it has
\* an id (0 included), else under the hash of its market_hash_name; an item
\* with neither is skipped and no record is written for it.
C34_IdentityDerivation ==
    [][(upc = "running" /\ Len(done') = Len(done) + 1) =>
            LET item == Head(batch)
                k == StatedKey(item)
            IN  IF k = IdentityError
                THEN files' = files /\ ~Last(done').ok /\ Last(done').why = "identity"
                ELSE /\ Last(done').why # "identity"
                     /\ Last(done').ok =>
                            /\ k \in FileNames
                            /\ last'[k] # None
                            /\ last'[k].item = item
                            /\ files'[k] # Absent]_vars

----------------------------------------------------------------------------
(* Claims on the parts of a record *)

\* C33: static fields are first-write-wins. No step changes or removes a key
\* that the static part of a well-formed record holds; an upsert of an item
\* with other static values leaves them as they are.
C33_StaticFirstWriteWins ==
    [][\A fn \in FileNames :
          IsUnified(files[fn]) =>
              /\ IsUnified(files'[fn])
              /\ \A k \in DOMAIN files[fn].static :
                    /\ k \in DOMAIN files'[fn].static
                    /\ files'[fn].static[k] = files[fn].static[k]]_vars

\* good 42 was stored under the name "C" and then upserted under the name
\* "C2": the record has the snapshot of that upsert and still the name "C"
C33_Witness ==
    /\ last["42"] # None
    /\ last["42"].item = G42re
    /\ IsUnified(files["42"])
    /\ files["42"].static["name"] = "C"
    /\ isoformat(last["42"].ts) \in DOMAIN files["42"].snapshots
    /\ Cardinality(DOMAIN files["42"].snapshots) >= 2

\* C37: field partition. Every record upsert_cache has written consists of
\* static and snapshots; the keys of static are static fields, the keys of
\* every snapshot are dynamic fields, no field is both, and a field of the
\* item that is neither is not in the record.
C37_FieldPartition ==
    /\ static_keys \cap dynamic_keys = {}
    /\ \A fn \in FileNames :
          last[fn] # None =>
              /\ IsUnified(files[fn])
              /\ DOMAIN files[fn] = {"kind", "static", "snapshots"}
              /\ DOMAIN files[fn].static \subseteq static_keys
              /\ \A ts \in DOMAIN files[fn].snapshots :
                    DOMAIN files[fn].snapshots[ts] \subseteq dynamic_keys
              /\ \A k \in DOMAIN last[fn].item \ (static_keys \cup dynamic_keys) :
                    /\ k \notin DOMAIN files[fn].static
                    /\ \A ts \in DOMAIN files[fn].snapshots :
                          k \notin DOMAIN files[fn].snapshots[ts]

\* 42.json held the item unsplit, steam_price included; upsert_cache has
\* rebuilt it from an item that carries steam_price, and the record holds
\* every field of the item but that one
C37_Witness ==
    /\ last["42"] # None
    /\ "steam_price" \in DOMAIN last["42"].item
    /\ nup = 1 /\ Len(done) = 1 /\ done[1].why = "appended"
    /\ IsUnified(files["42"])
    /\ \E ts \in DOMAIN files["42"].snapshots :
          DOMAIN files["42"].static \cup DOMAIN files["42"].snapshots[ts]
              = DOMAIN last["42"].item \ {"steam_price"}

----------------------------------------------------------------------------
(* Claims on the reads *)

\* C38: reads do not change the store. A call of load_cache, whatever its
\* filters and whatever the files hold, leaves every file as it is, and as
\* long as no upsert follows, the same call returns the same result again.
C38_ReadsLeaveStore ==
    [][/\ (query' # query /\ query'.t = "page") => files' = files
       /\ query'.t = "page" =>
              result' = load_cache(files', query'.start_time, query'.end_time,
                                   query'.keys, query'.limit, query'.offset)]_vars

\* a query over a json_dir holding a file of another shape or an unparseable
\* one has returned a view, and the damaged file is as it was
C38_Witness ==
    /\ query.t = "page"
    /\ Len(result) >= 1
    /\ \E fn \in FileNames : files[fn].kind \in {"garbage", "legacy"}

----------------------------------------------------------------------------
(* Claims on what the watchlist loop leaves alone *)

\* C35: the watchlist is read-only to the loop. No step of the worker (the
\* staleness test, the resolution, the refresh, the evaluation, a message)
\* adds, removes or changes a watch entry or its conditions.
C35_WatchlistReadOnly ==
    [][cfg'.watchlist = cfg.watchlist]_vars

\* a pass has evaluated an entry and sent an alert for it, and a second
\* entry was resolved without success and reported
C35_Witness ==
    /\ lpc = "sleep_pass"
    /\ Len(cfg.watchlist) = 2
    /\ \E i, j \in 1..Len(emails) : IsAlert(emails[i]) /\ ~IsAlert(emails[j])

\* the places of the loop between line 166 and line 229, where the
\* marketplace is called and the cache refreshed
Refreshing == {"search1", "byid", "search2", "store"}

\* C36: a fresh view suppresses the external calls. When the view of an
\* entry exists and is not stale at line 166, the worker goes to the
\* evaluation with no search_goods_list call, no get_goods_info call and no
\* upsert_cache call for that entry, whoever wrote the view.
C36_FreshViewNoCalls ==
    [][/\ (/\ lpc = "check"
           /\ cached_items # <<>>
           /\ ~is_stale(cached_items, now, cfg.check_frequency))
          => /\ lpc' \in {"check", "evaluate"}
             /\ calls' = <<>>
       /\ (lpc \in {"evaluate", "sleep_item"} /\ calls = <<>> /\ cached_items # <<>>)
          => /\ lpc' \notin Refreshing
             /\ calls' = <<>>
             /\ (files' = files \/ nup' # nup)]_vars

\* the worker evaluates a view of good 42 that only the worker of another
\* user can have written (price 100), and has made no call for the entry
C36_Witness ==
    /\ lpc = "evaluate"
    /\ calls = <<>>
    /\ nup = 1
    /\ cached_items # <<>>
    /\ cached_items[1]["sell_min_price"] = Num(100)
    /\ ~is_stale(cached_items, now, cfg.check_frequency)

----------------------------------------------------------------------------
(* Claims on concurrent registration *)

\* the requests that have returned
Returned == {r \in ReqIds : reqs[r].pc = "done"}

\* C39: concurrent registration is exclusive. Of the registration requests
\* for one address that was not registered, at most one reports success,
\* and once all of them have returned the stored record is the one the
\* successful request wrote.
C39_ExclusiveRegistration ==
    /\ \A r1, r2 \in Returned :
          (r1 # r2 /\ reqs[r1].username = reqs[r2].username)
              => ~(reqs[r1].ok /\ reqs[r2].ok)
    /\ \A r \in Returned :
          (reqs[r].ok /\ \A o \in ReqIds : reqs[o].pc \in {"new", "done"})
              => user_files[reqs[r].username] =
                     UserData(hash_password(reqs[r].password), "",
                              Email(reqs[r].username))

====
